---- MODULE Spec2Model ----
(***************************************************************************)
(* A model of gpui-terminal's view coordinator (src/src/view.rs), terminal *)
(* state wrapper (src/src/terminal.rs), event bridge (src/src/event.rs)    *)
(* and keystroke encoder (src/src/input.rs).                               *)
(*                                                                         *)
(* Three threads of control are modelled: the blocking reader thread, the  *)
(* cooperative reader task, and the UI thread (render, paint, key input,   *)
(* public resize).  The engine (alacritty_terminal's Term and its VTE      *)
(* parser) is a dependency of the repository; it is modelled as a small    *)
(* deterministic machine that is driven only through the calls the         *)
(* repository makes on it (Term::new, Processor::advance, Term::resize,    *)
(* Term::mode, columns, screen_lines) and that reports through the         *)
(* EventListener the repository implements.                                *)
(***************************************************************************)
EXTENDS Integers, Sequences, FiniteSets, TLC

\* ------------------------------------------------------------------ bounds

\* Successful read() calls of the reader thread.
MaxReads == 2
\* Frames rendered by the host.
MaxPaints == 2
\* Key-down events delivered by the host.
MaxKeys == 2
\* Calls of the public TerminalView::resize.
MaxResizes == 1
\* Engine events handed to the event bridge one by one.
MaxSends == 2
MaxBuilderCalls == 2

VARIABLES
    \* reader thread (TerminalView::read_stdout_blocking)
    rpc,          \* "run" | "eof" | "err" | "send_failed"
    src_read,     \* history: the chunks read() has returned, in order
    bytes_q,      \* the flume byte channel: chunks sent and not yet received
    \* cooperative task (the future spawned in TerminalView::new)
    tpc,          \* "recv" | "advance" | "done"
    cur,          \* the chunk process_bytes is working on
    idx,          \* how many bytes of cur the parser has consumed
    processed,    \* history: the chunks passed to process_bytes, in call order
    synth_exits,  \* history: synthetic Exit events the task has enqueued
    \* engine behind Arc<Mutex<Term>>, and the parser kept outside the lock
    term,         \* [columns, screen_lines, mode, grid]
    parser,       \* "ground" | "escape"
    term_lock,    \* "free" | "task" | "ui": who holds the engine mutex
    \* TerminalState's cached dimensions
    st_cols, st_rows,
    \* the view
    alive,        \* FALSE once the view entity has been dropped
    cbs,          \* which optional callbacks the host has installed
    config,       \* [cols, rows]: TerminalConfig as given to TerminalView::new
    geom,         \* [w, h, pad, cw, ch]: bounds, padding and cell metrics
    dirty,        \* cx.notify() has asked for a repaint
    \* event channel (std::sync::mpsc) between GpuiEventProxy and the view
    event_q,      \* events sent and not yet received
    sent,         \* history: every event accepted by the channel, in order
    dispatched,   \* history: every event process_events has received, in order
    calls,        \* history: user callbacks invoked by process_events
    \* UI thread
    upc,          \* "idle" | "paint" | "mode" | "key_lock" | "key_write"
    pending,      \* bytes on_key_down is about to write
    npaints, nkeys, nresizes,
    seen,         \* what the last UI-thread critical section read from the engine
    drain_mark,   \* how many events had been sent when process_events last ran
    oplog,        \* history: paints, resize callbacks and engine resizes
    keylog,       \* history: key-down events and what became of them
    \* PTY sink behind stdin_writer
    sink_ok,      \* FALSE once the sink has started to fail
    wbuf,         \* bytes accepted by write_all and not yet flushed
    pty_in,       \* bytes the PTY has received
    sink_calls,   \* history: the calls made on the writer
    writer_lock,  \* "free" | "ui": who holds the stdin_writer mutex
    \* one call of a pure function of the library
    fin,          \* the arguments (for send_event: the calls made so far)
    fout          \* [done, val]: whether the call has returned, and its result

readerVars == <<rpc, src_read, bytes_q>>
taskVars   == <<tpc, cur, idx, processed, synth_exits>>
engineVars == <<term, parser, term_lock>>
cacheVars  == <<st_cols, st_rows>>
viewVars   == <<alive, cbs, config, geom, dirty>>
eventVars  == <<event_q, sent, dispatched, calls>>
uiVars     == <<upc, pending, npaints, nkeys, nresizes, seen, drain_mark,
               oplog, keylog>>
sinkVars   == <<sink_ok, wbuf, pty_in, sink_calls, writer_lock>>
callVars   == <<fin, fout>>

vars == <<readerVars, taskVars, engineVars, cacheVars, viewVars, eventVars,
          uiVars, sinkVars, callVars>>

\* ------------------------------------------------------------- helpers

Max(a, b) == IF a >= b THEN a ELSE b

RECURSIVE Flatten(_)
Flatten(ss) == IF ss = <<>> THEN <<>> ELSE Head(ss) \o Flatten(Tail(ss))

IsPrefix(s, t) == Len(s) <= Len(t) /\ SubSeq(t, 1, Len(s)) = s

\* ---------------------------------------------------------------- engine

\* The engine's own Config::default(): scrolling_history.
EngineDefaultHistory == 10000

\* The initial engine: Term::new(config, &TermDimensions::new(cols, rows), ..)
\* with config = Config::default(), an empty mode and nothing printed.
TermNew(cols, rows) ==
    [columns |-> cols, screen_lines |-> rows, mode |-> {}, grid |-> <<>>,
     history |-> EngineDefaultHistory]

\* An engine event as handed to EventListener::send_event.
EngEvent(k, d) == [kind |-> k, data |-> d]

\* What the control function selected by byte b after ESC does.  Each selector
\* stands for one complete control sequence of the real engine: 'h'/'l' for
\* DECSET/DECRST 1 (APP_CURSOR), 't' for OSC 2 (title), 'r' for a title reset,
\* 'c'/'p' for OSC 52 store/load, 'n' for a status report (answered through
\* PtyWrite), 'w' for a wakeup.
EscDispatch(t, b) ==
    CASE b = 104 -> [term |-> [t EXCEPT !.mode = @ \cup {"APP_CURSOR"}], events |-> <<>>]
      [] b = 108 -> [term |-> [t EXCEPT !.mode = @ \ {"APP_CURSOR"}], events |-> <<>>]
      [] b = 116 -> [term |-> t, events |-> <<EngEvent("Title", "t")>>]
      [] b = 114 -> [term |-> t, events |-> <<EngEvent("ResetTitle", "")>>]
      [] b = 99  -> [term |-> t, events |-> <<EngEvent("ClipboardStore", "d")>>]
      [] b = 112 -> [term |-> t, events |-> <<EngEvent("ClipboardLoad", "")>>]
      [] b = 110 -> [term |-> t, events |-> <<EngEvent("PtyWrite", "")>>]
      [] b = 119 -> [term |-> t, events |-> <<EngEvent("Wakeup", "")>>]
      [] OTHER   -> [term |-> t, events |-> <<>>]

\* One byte through the parser: Processor::advance for a single byte.  ESC
\* opens a control sequence (also when one is open), BEL rings, any other byte
\* is printed in the ground state or selects the control function after ESC.
AdvanceByte(t, p, b) ==
    IF b = 27 THEN [term |-> t, parser |-> "escape", events |-> <<>>]
    ELSE IF p = "escape"
         THEN [term |-> EscDispatch(t, b).term, parser |-> "ground",
               events |-> EscDispatch(t, b).events]
    ELSE IF b = 7 THEN [term |-> t, parser |-> "ground",
                        events |-> <<EngEvent("Bell", "")>>]
    ELSE [term |-> [t EXCEPT !.grid = Append(@, b)], parser |-> "ground",
          events |-> <<>>]

\* Term::resize(size): the grid takes the requested dimensions.
TermResize(t, cols, rows) == [t EXCEPT !.columns = cols, !.screen_lines = rows]

\* ---------------------------------------------------------- event bridge

TermEvent(k, d) == [kind |-> k, data |-> d]

\* GpuiEventProxy::send_event: the TerminalEvents (none or one) an engine
\* event is translated to.
send_event_by_name(ev) ==
    IF ev.kind \in {"Wakeup", "Bell", "Title", "ClipboardStore", "ClipboardLoad", "Exit"}
    THEN <<[kind |-> ev.kind, data |-> ev.data]>>
    ELSE <<>>
send_event(ev) ==
    CASE ev.kind = "Wakeup"         -> <<TermEvent("Wakeup", "")>>
      [] ev.kind = "Bell"           -> <<TermEvent("Bell", "")>>
      [] ev.kind = "Title"          -> <<TermEvent("Title", ev.data)>>
      [] ev.kind = "ClipboardStore" -> <<TermEvent("ClipboardStore", ev.data)>>
      [] ev.kind = "ClipboardLoad"  -> <<TermEvent("ClipboardLoad", "")>>
      [] ev.kind = "Exit"           -> <<TermEvent("Exit", "")>>
      [] ev.kind = "ResetTitle"     -> <<TermEvent("Title", "")>>
      [] ev.kind = "ChildExit"      -> <<TermEvent("Exit", "")>>
      [] OTHER                      -> <<>>

RECURSIVE Bridge(_)
\* send_event applied to each engine event of one parser step, in order.
Bridge(evs) ==
    IF evs = <<>> THEN <<>> ELSE send_event(Head(evs)) \o Bridge(Tail(evs))

\* GpuiEventProxy::send / exit_event_tx.send: mpsc::Sender::send succeeds while
\* the receiver (a field of the view) exists; the error is discarded.
ChannelSend(q, evs) == IF alive THEN q \o evs ELSE q

\* Every variant of the engine's Event enum, with one sample payload each.
EngineEvents ==
    { EngEvent("Wakeup", ""), EngEvent("Bell", ""), EngEvent("Title", "t"),
      EngEvent("ResetTitle", ""), EngEvent("ClipboardStore", "d"),
      EngEvent("ClipboardLoad", ""), EngEvent("Exit", ""),
      EngEvent("ChildExit", ""), EngEvent("MouseCursorDirty", ""),
      EngEvent("PtyWrite", ""), EngEvent("ColorRequest", ""),
      EngEvent("TextAreaSizeRequest", ""), EngEvent("CursorBlinkingChange", "") }

\* The engine calls EventListener::send_event with one event; fin records the
\* call and whether the receiver existed.
SendEvent ==
    /\ Len(fin) < MaxSends
    /\ \E ev \in EngineEvents :
          /\ fin' = Append(fin, [ev |-> ev, rx |-> alive])
          /\ event_q' = ChannelSend(event_q, send_event(ev))
          /\ sent' = ChannelSend(sent, send_event(ev))
    /\ UNCHANGED <<fout, readerVars, taskVars, engineVars, cacheVars, viewVars,
                   dispatched, calls, uiVars, sinkVars>>

\* ----------------------------------------------------------- reader thread

\* What one read() of the PTY source can return: each chunk is a non-empty
\* run of bytes (27 ESC, 7 BEL, letters).  A control sequence may be split
\* between two reads.
Chunks == { <<120, 7, 27>>,
            <<104, 27, 116>>,
            <<27, 99, 27, 112, 27, 119>>,
            <<27, 108, 27, 114, 27, 110>> }

\* Chunks that switch APP_CURSOR on (leaving a sequence open) and, after it,
\* off.
ModeChunks == { <<27, 104, 27>>, <<108>> }

\* flume::Sender::send fails once every receiver is gone; the receiver lives
\* in the cooperative task's future.
BytesRxAlive == tpc # "done"

\* bytes_tx.send(bytes) on the unbounded channel: the chunk joins the queue
\* behind everything sent before it.
BytesSendFront(q, chunk) == <<chunk>> \o q
BytesSend(q, chunk) == Append(q, chunk)

\* read() returned Ok(n), n > 0: the chunk is copied and sent on the channel;
\* a failed send ends the thread.
ReaderRead(pool) ==
    /\ rpc = "run"
    /\ Len(src_read) < MaxReads
    /\ \E chunk \in pool :
          /\ src_read' = Append(src_read, chunk)
          /\ bytes_q' = IF BytesRxAlive THEN BytesSend(bytes_q, chunk) ELSE bytes_q
          /\ rpc' = IF BytesRxAlive THEN "run" ELSE "send_failed"
    /\ UNCHANGED <<callVars, taskVars, engineVars, cacheVars, viewVars, eventVars,
                   uiVars, sinkVars>>

\* read() returned Ok(0) or Err: the loop breaks and bytes_tx is dropped.
ReaderStop ==
    /\ rpc = "run"
    /\ \E why \in {"eof", "err"} : rpc' = why
    /\ UNCHANGED <<callVars, src_read, bytes_q, taskVars, engineVars, cacheVars,
                   viewVars, eventVars, uiVars, sinkVars>>

\* Every sender of the byte channel has been dropped.
BytesTxDropped == rpc # "run"

\* --------------------------------------------------------- cooperative task

\* process_bytes keeps the engine lock from its first byte to its last: the
\* guard taken at the top of the call is dropped when the call returns, that
\* is after byte i of n only when i = n.
ReleaseLockEachByte(i, n) == TRUE
ProcessBytesReleasesLock(i, n) == i = n

\* recv_async() returned Ok(bytes).  this.update runs the closure if the view
\* still exists: process_bytes takes the engine lock.  If the view is gone
\* update fails and the loop breaks (the future and its receiver are dropped).
TaskRecv ==
    /\ tpc = "recv"
    /\ bytes_q # <<>>
    /\ bytes_q' = Tail(bytes_q)
    /\ IF alive
         THEN /\ term_lock = "free"
              /\ term_lock' = "task"
              /\ tpc' = "advance"
              /\ cur' = Head(bytes_q)
              /\ idx' = 0
              /\ processed' = Append(processed, Head(bytes_q))
         ELSE /\ tpc' = "done"
              /\ UNCHANGED <<cur, idx, processed, term_lock>>
    /\ UNCHANGED <<callVars, rpc, src_read, synth_exits, term, parser, cacheVars,
                   viewVars, eventVars, uiVars, sinkVars>>

\* parser.advance(&mut *term, bytes), one byte at a time; events the engine
\* raises go through the event bridge.  After the last byte process_bytes
\* returns (the lock guard is dropped) and the closure calls cx.notify().
TaskAdvance ==
    /\ tpc = "advance"
    /\ idx < Len(cur)
    /\ term_lock \in {"free", "task"}
    /\ LET r   == AdvanceByte(term, parser, cur[idx + 1])
           evs == Bridge(r.events)
           end == idx + 1 = Len(cur)
       IN /\ term' = r.term
          /\ parser' = r.parser
          /\ event_q' = ChannelSend(event_q, evs)
          /\ sent' = ChannelSend(sent, evs)
          /\ idx' = idx + 1
          /\ term_lock' = IF ProcessBytesReleasesLock(idx + 1, Len(cur))
                            THEN "free" ELSE "task"
          /\ tpc' = IF end THEN "recv" ELSE "advance"
          /\ dirty' = IF end THEN TRUE ELSE dirty
    /\ UNCHANGED <<callVars, readerVars, cur, processed, synth_exits,
                   cacheVars, alive, cbs, config, geom, dispatched, calls,
                   uiVars, sinkVars>>

\* recv_async().await yields Err(_) only when the channel is empty and every
\* sender is gone; while a sender exists the task stays suspended.
RecvEmpty == bytes_q = <<>>
RecvDisconnected == bytes_q = <<>> /\ BytesTxDropped

\* cx.notify() inside this.update: the view is marked for a repaint.
NotifyDropped(d) == d
Notified(d) == TRUE

\* recv_async() returned Err: the task sends the synthetic Exit, notifies the
\* view and ends.
TaskClosed ==
    /\ tpc = "recv"
    /\ RecvDisconnected
    /\ event_q' = ChannelSend(event_q, <<TermEvent("Exit", "")>>)
    /\ sent' = ChannelSend(sent, <<TermEvent("Exit", "")>>)
    /\ synth_exits' = IF alive THEN synth_exits + 1 ELSE synth_exits
    /\ dirty' = IF alive THEN Notified(dirty) ELSE dirty
    /\ tpc' = "done"
    /\ UNCHANGED <<callVars, readerVars, cur, idx, processed, engineVars, cacheVars,
                   alive, cbs, config, geom, dispatched, calls, uiVars,
                   sinkVars>>

\* The view owned the Task handle: dropping the view drops the handle and the
\* future is cancelled where it is suspended, at recv_async().await.
TaskCancelled ==
    /\ tpc = "recv"
    /\ ~alive
    /\ tpc' = "done"
    /\ UNCHANGED <<callVars, readerVars, cur, idx, processed, synth_exits, engineVars,
                   cacheVars, viewVars, eventVars, uiVars, sinkVars>>

\* ---------------------------------------------------------------- encoder

None == [some |-> FALSE, bytes |-> <<>>]
Some(b) == [some |-> TRUE, bytes |-> b]

\* A gpui Keystroke: key name, modifiers and the character typed, if any.
Keystroke(key, control, alt, shift, key_char) ==
    [key |-> key, control |-> control, alt |-> alt, shift |-> shift,
     key_char |-> key_char]

\* keystroke.key as UTF-8.  The names of special keys are longer than one
\* byte and only their length is read, so they share one two-byte stand-in.
KeyUtf8(key) ==
    CASE key = "a" -> <<97>>   [] key = "c" -> <<99>>   [] key = "x" -> <<120>>
      [] key = "z" -> <<122>>  [] key = "A" -> <<65>>   [] key = "C" -> <<67>>
      [] key = "1" -> <<49>>   [] key = "+" -> <<43>>   [] key = "[" -> <<91>>
      [] key = "\\" -> <<92>>  [] key = "]" -> <<93>>   [] key = "^" -> <<94>>
      [] key = "_" -> <<95>>   [] key = "?" -> <<63>>   [] key = "/" -> <<47>>
      [] key = "e-acute" -> <<195, 169>>
      [] OTHER -> <<0, 0>>

is_ascii_alphabetic(b) == (65 <= b /\ b <= 90) \/ (97 <= b /\ b <= 122)
keep_case(b) == b
to_ascii_uppercase(b) == IF 97 <= b /\ b <= 122 THEN b - 32 ELSE b
is_ascii(b) == b < 128

\* mode.contains(TermMode::APP_CURSOR).
AnyAppMode(mode) == mode \cap {"APP_CURSOR", "APP_KEYPAD"} # {}
AppCursor(mode) == "APP_CURSOR" \in mode

\* The fixed sequences of the match on keystroke.key; None for `_ => {}`.
SpecialKey(ks, mode) ==
    LET app == AppCursor(mode)
        k == ks.key
    IN CASE k = "space" -> IF ks.control THEN Some(<<0>>) ELSE Some(<<32>>)
         [] k = "enter" -> Some(<<13>>)
         [] k = "escape" -> Some(<<27>>)
         [] k = "backspace" -> Some(<<127>>)
         [] k = "tab" -> IF ks.shift THEN Some(<<27, 91, 90>>) ELSE Some(<<9>>)
         [] k = "up" -> IF app THEN Some(<<27, 79, 65>>) ELSE Some(<<27, 91, 65>>)
         [] k = "down" -> IF app THEN Some(<<27, 79, 66>>) ELSE Some(<<27, 91, 66>>)
         [] k = "right" -> IF app THEN Some(<<27, 79, 67>>) ELSE Some(<<27, 91, 67>>)
         [] k = "left" -> IF app THEN Some(<<27, 79, 68>>) ELSE Some(<<27, 91, 68>>)
         [] k = "home" -> Some(<<27, 91, 72>>)
         [] k = "end" -> Some(<<27, 91, 70>>)
         [] k = "pageup" -> Some(<<27, 91, 53, 126>>)
         [] k = "pagedown" -> Some(<<27, 91, 54, 126>>)
         [] k = "insert" -> Some(<<27, 91, 50, 126>>)
         [] k = "delete" -> Some(<<27, 91, 51, 126>>)
         [] k = "f1" -> Some(<<27, 79, 80>>)
         [] k = "f2" -> Some(<<27, 79, 81>>)
         [] k = "f3" -> Some(<<27, 79, 82>>)
         [] k = "f4" -> Some(<<27, 79, 83>>)
         [] k = "f5" -> Some(<<27, 91, 49, 53, 126>>)
         [] k = "f6" -> Some(<<27, 91, 49, 55, 126>>)
         [] k = "f7" -> Some(<<27, 91, 49, 56, 126>>)
         [] k = "f8" -> Some(<<27, 91, 49, 57, 126>>)
         [] k = "f9" -> Some(<<27, 91, 50, 48, 126>>)
         [] k = "f10" -> Some(<<27, 91, 50, 49, 126>>)
         [] k = "f11" -> Some(<<27, 91, 50, 51, 126>>)
         [] k = "f12" -> Some(<<27, 91, 50, 52, 126>>)
         [] OTHER -> None

\* The Ctrl block: a result only for a one-byte key that is a letter or one
\* of the six special characters.
CtrlKey(ks) ==
    LET u  == KeyUtf8(ks.key)
        ch == u[1]
    IN IF ~(ks.control /\ Len(u) = 1) THEN None
       ELSE IF is_ascii_alphabetic(ch) THEN Some(<<to_ascii_uppercase(ch) - 64>>)
       ELSE CASE ch = 91 -> Some(<<27>>)
              [] ch = 92 -> Some(<<28>>)
              [] ch = 93 -> Some(<<29>>)
              [] ch = 94 -> Some(<<30>>)
              [] ch = 95 -> Some(<<31>>)
              [] ch = 63 -> Some(<<127>>)
              [] OTHER -> None

\* The Alt block: ESC then the key's byte, for a one-byte key.
AltKeyShifted(ks) ==
    LET u == KeyUtf8(ks.key)
    IN IF ks.alt /\ Len(u) = 1 /\ is_ascii(u[1])
       THEN Some(<<27, IF ks.shift THEN to_ascii_uppercase(u[1]) ELSE u[1]>>)
       ELSE None
AltKey(ks) ==
    LET u == KeyUtf8(ks.key)
    IN IF ks.alt /\ Len(u) = 1 /\ is_ascii(u[1]) THEN Some(<<27, u[1]>>) ELSE None

\* The printable tail: key_char when present and neither Ctrl nor Alt is held,
\* else a one-byte key (upper-cased under Shift) unless Ctrl is held.
PrintableKey(ks) ==
    LET u == KeyUtf8(ks.key)
    IN IF ks.key_char.some /\ ~ks.control /\ ~ks.alt THEN Some(ks.key_char.bytes)
       ELSE IF Len(u) # 1 THEN None
       ELSE IF is_ascii(u[1]) /\ ~ks.control
            THEN Some(<<IF ks.shift THEN to_ascii_uppercase(u[1]) ELSE u[1]>>)
       ELSE IF ~ks.control /\ ~ks.alt THEN Some(u)
       ELSE None

\* keystroke_to_bytes: the first of the four blocks that returns.
printable_first(ks, mode) ==
    IF PrintableKey(ks).some THEN PrintableKey(ks)
    ELSE IF SpecialKey(ks, mode).some THEN SpecialKey(ks, mode)
    ELSE IF CtrlKey(ks).some THEN CtrlKey(ks)
    ELSE AltKey(ks)
keystroke_to_bytes(ks, mode) ==
    IF SpecialKey(ks, mode).some THEN SpecialKey(ks, mode)
    ELSE IF CtrlKey(ks).some THEN CtrlKey(ks)
    ELSE IF AltKey(ks).some THEN AltKey(ks)
    ELSE PrintableKey(ks)

\* The keys the encoder is called with: every named key of the match, ASCII
\* letters, digits and punctuation, a non-ASCII letter, a bare modifier and a
\* special key the match does not know.
NamedKeys ==
    { "space", "enter", "escape", "backspace", "tab", "up", "down", "right",
      "left", "home", "end", "pageup", "pagedown", "insert", "delete",
      "f1", "f2", "f3", "f4", "f5", "f6", "f7", "f8", "f9", "f10", "f11", "f12" }
AsciiKeys == { "a", "c", "x", "z", "A", "C", "1", "+", "[", "\\", "]", "^", "_", "?", "/" }
EncoderKeys == NamedKeys \cup AsciiKeys \cup { "e-acute", "shift", "f13" }

\* keystroke.key_char as the platform reports it: the character typed, for a
\* key that types one.
TypedChar(key, shift) ==
    CASE key \in AsciiKeys ->
           Some(<<IF shift THEN to_ascii_uppercase(KeyUtf8(key)[1]) ELSE KeyUtf8(key)[1]>>)
      [] key = "e-acute" -> Some(<<195, 169>>)
      [] key = "space" -> Some(<<32>>)
      [] key = "enter" -> Some(<<10>>)
      [] key = "tab" -> Some(<<9>>)
      [] OTHER -> None

\* TermMode values: APP_CURSOR with and without other bits.
EncoderModes == SUBSET {"APP_CURSOR", "APP_KEYPAD", "ALT_SCREEN"}

\* The calls keystroke_to_bytes(&keystroke, mode) that are followed.
EncoderInputs ==
    { [ks |-> Keystroke(k, c, a, sh, kc), mode |-> m] :
        k \in EncoderKeys, c \in BOOLEAN, a \in BOOLEAN, sh \in BOOLEAN,
        kc \in {None, Some(<<0>>)}, m \in EncoderModes }

\* With key_char as the platform would report it, or absent.
EncoderCalls ==
    { [ks |-> Keystroke(i.ks.key, i.ks.control, i.ks.alt, i.ks.shift,
                        IF i.ks.key_char.some THEN TypedChar(i.ks.key, i.ks.shift)
                        ELSE None),
       mode |-> i.mode] : i \in EncoderInputs }

\* One call of keystroke_to_bytes.
EncodeKey ==
    /\ ~fout.done
    /\ fin \in EncoderCalls
    /\ fout' = [done |-> TRUE, val |-> keystroke_to_bytes(fin.ks, fin.mode)]
    /\ UNCHANGED <<fin, readerVars, taskVars, engineVars, cacheVars, viewVars,
                   eventVars, uiVars, sinkVars>>

\* ------------------------------------------------------------------ mouse

\* format!("{}", n) for an integer: its decimal digits as bytes, '-' first
\* for a negative number.
RECURSIVE Digits(_)
Digits(n) == IF n < 10 THEN <<48 + n>> ELSE Digits(n \div 10) \o <<48 + (n % 10)>>

Display(n) == IF n < 0 THEN <<45>> \o Digits(0 - n) ELSE Digits(n)

\* a | b on u8 values.
RECURSIVE BitOr(_, _)
BitOr(a, b) ==
    IF a = 0 THEN b
    ELSE IF b = 0 THEN a
    ELSE 2 * BitOr(a \div 2, b \div 2) + (IF a % 2 = 1 \/ b % 2 = 1 THEN 1 ELSE 0)

\* The SGR coordinates: point.column.0 + 1 and point.line.0 + 1.
ZeroBased(n) == n
OneBased(n) == n + 1

\* mouse_button_report(button, pressed, point, modifiers, mode).
mouse_button_report(button, pressed, point, modifiers, mode) ==
    IF mode \cap {"MOUSE_REPORT_CLICK", "MOUSE_MOTION", "MOUSE_DRAG"} = {} THEN None
    ELSE IF button \notin {"Left", "Middle", "Right"} THEN None
    ELSE LET button_code  == CASE button = "Left" -> 0
                               [] button = "Middle" -> 1
                               [] button = "Right" -> 2
             button_value == BitOr(button_code, modifiers)
             col          == OneBased(point.column)
             row          == OneBased(point.line)
             action       == IF pressed THEN 77 ELSE 109
         IN Some(<<27, 91, 60>> \o Display(button_value) \o <<59>> \o Display(col)
                 \o <<59>> \o Display(row) \o <<action>>)

\* The calls of mouse_button_report that are followed: the three reported
\* buttons and a navigation button, grid points on and above the screen,
\* modifier values as encode_modifiers builds them (and one with a low bit
\* set), modes with and without a mouse-reporting bit.
MouseCalls ==
    LET MouseButtons == { "Left", "Middle", "Right", "NavigateBack" }
        MousePoints ==
            { [line |-> l, column |-> c] : l \in {0 - 1, 0, 5, 23}, c \in {0, 10, 79, 131} }
        MouseModifiers == { 0, 4, 8, 16, 28, 1 }
        MouseModes ==
            { {}, {"SGR_MOUSE"}, {"MOUSE_REPORT_CLICK"}, {"MOUSE_MOTION"}, {"MOUSE_DRAG"},
              {"MOUSE_REPORT_CLICK", "SGR_MOUSE"}, {"MOUSE_DRAG", "ALT_SCREEN"} }
    IN { [fn |-> "mouse_button_report", button |-> b, pressed |-> p, point |-> pt,
          modifiers |-> md, mode |-> m] :
           b \in MouseButtons, p \in BOOLEAN, pt \in MousePoints,
           md \in MouseModifiers, m \in MouseModes }

\* One call of mouse_button_report.
MouseButtonReport ==
    /\ ~fout.done
    /\ fin.fn = "mouse_button_report"
    /\ fout' = [done |-> TRUE,
                val |-> mouse_button_report(fin.button, fin.pressed, fin.point,
                                            fin.modifiers, fin.mode)]
    /\ UNCHANGED <<fin, readerVars, taskVars, engineVars, cacheVars, viewVars,
                   eventVars, uiVars, sinkVars>>

\* i32::MIN and i32::MAX.
I32Max == 2147483647
I32Min == (0 - I32Max) - 1

\* A call that does not return: the thread panics.
Panic == [some |-> FALSE, bytes |-> <<>>, panicked |-> TRUE]

RECURSIVE Repeat(_, _)
\* `for _ in 0..count { result.extend_from_slice(seq) }`.
Repeat(seq, count) == IF count = 0 THEN <<>> ELSE seq \o Repeat(seq, count - 1)

\* scroll_to_arrow_keys(delta, mode).  delta.abs() overflows for i32::MIN: a
\* build with overflow checks panics there; a build without them gets
\* i32::MIN back, min(5) keeps it, `as usize` turns it into 2^64 - 2^31, and
\* Vec::with_capacity(3 * count) panics with a capacity overflow.
scroll_to_arrow_keys(delta, mode, build) ==
    LET abs_overflows == delta = I32Min
        arrow_seq == IF delta > 0
                     THEN (IF "APP_CURSOR" \in mode THEN <<27, 79, 65>> ELSE <<27, 91, 65>>)
                     ELSE (IF "APP_CURSOR" \in mode THEN <<27, 79, 66>> ELSE <<27, 91, 66>>)
    IN IF abs_overflows
       THEN (IF build = "debug" THEN Panic ELSE Panic)
       ELSE LET abs   == IF delta < 0 THEN 0 - delta ELSE delta
                count == IF abs < 5 THEN abs ELSE 5
            IN Some(Repeat(arrow_seq, count))

\* scroll_report(delta, point, modifiers, mode).
scroll_report(delta, point, modifiers, mode, build) ==
    IF mode \cap {"MOUSE_REPORT_CLICK", "MOUSE_MOTION", "MOUSE_DRAG"} # {}
    THEN LET button_code  == IF delta > 0 THEN 64 ELSE 65
             button_value == BitOr(button_code, modifiers)
             col          == point.column + 1
             row          == point.line + 1
         IN Some(<<27, 91, 60>> \o Display(button_value) \o <<59>> \o Display(col)
                 \o <<59>> \o Display(row) \o <<77>>)
    ELSE IF "ALT_SCREEN" \in mode THEN scroll_to_arrow_keys(delta, mode, build)
    ELSE None

\* The calls of scroll_report that are followed: deltas of both signs, zero,
\* beyond the limit of five and at the ends of i32.
ScrollCalls ==
    LET ScrollDeltas == { I32Min, 0 - 100, 0 - 6, 0 - 5, 0 - 2, 0 - 1, 0, 1, 3, 5, 6, 100, I32Max }
        ScrollModes ==
            { {}, {"APP_CURSOR"}, {"ALT_SCREEN"}, {"ALT_SCREEN", "APP_CURSOR"},
              {"MOUSE_REPORT_CLICK"}, {"MOUSE_MOTION", "ALT_SCREEN"},
              {"MOUSE_DRAG", "ALT_SCREEN", "APP_CURSOR"} }
    IN { [fn |-> "scroll_report", delta |-> d, point |-> pt, modifiers |-> md,
          mode |-> m, build |-> b] :
           d \in ScrollDeltas, pt \in {[line |-> 5, column |-> 10], [line |-> 0, column |-> 0]},
           md \in {0, 4, 28}, m \in ScrollModes, b \in {"debug", "release"} }

\* One call of scroll_report.
ScrollReport ==
    /\ ~fout.done
    /\ fin.fn = "scroll_report"
    /\ fout' = [done |-> TRUE,
                val |-> scroll_report(fin.delta, fin.point, fin.modifiers,
                                      fin.mode, fin.build)]
    /\ UNCHANGED <<fin, readerVars, taskVars, engineVars, cacheVars, viewVars,
                   eventVars, uiVars, sinkVars>>

\* --------------------------------------------------------------- palette
RECURSIVE Gcd(_, _)
Gcd(a, b) == IF b = 0 THEN a ELSE Gcd(b, a % b)

\* An f32 component kept as the exact fraction it approximates, in lowest
\* terms (n >= 0, d > 0).
Frac(n, d) == LET g == Gcd(n, d) IN <<n \div g, d \div g>>

Rgb(r, g, b) == [r |-> r, g |-> g, b |-> b]

\* rgb_to_hsla(rgb): hue, saturation and lightness of an 8-bit colour.
rgb_to_hsla(rgb) ==
    LET of(max, min) ==
            LET from(delta, sum) ==
                    LET hue(hnum) ==
                            IF delta = 0 THEN Frac(0, 1)
                            ELSE IF hnum < 0 THEN Frac(hnum + 6 * delta, 6 * delta)
                            ELSE Frac(hnum, 6 * delta)
                    IN [h |-> hue(IF delta = 0 THEN 0
                                  ELSE IF max = rgb.r THEN rgb.g - rgb.b
                                  ELSE IF max = rgb.g THEN (rgb.b - rgb.r) + 2 * delta
                                  ELSE (rgb.r - rgb.g) + 4 * delta),
                        s |-> IF delta = 0 THEN Frac(0, 1)
                              ELSE Frac(delta,
                                        255 - (IF sum >= 255 THEN sum - 255
                                               ELSE 255 - sum)),
                        l |-> Frac(sum, 510),
                        a |-> 1]
            IN from(max - min, max + min)
        minrg == IF rgb.r < rgb.g THEN rgb.r ELSE rgb.g
    IN of(Max(Max(rgb.r, rgb.g), rgb.b), IF minrg < rgb.b THEN minrg ELSE rgb.b)

\* The 16 ANSI colours of ColorPalette::default().
DefaultAnsiRgb ==
    << Rgb(0, 0, 0),       Rgb(204, 0, 0),     Rgb(78, 154, 6),    Rgb(196, 160, 0),
       Rgb(52, 101, 164),  Rgb(117, 80, 123),  Rgb(6, 152, 154),   Rgb(211, 215, 207),
       Rgb(85, 87, 83),    Rgb(239, 41, 41),   Rgb(138, 226, 52),  Rgb(252, 233, 79),
       Rgb(114, 159, 207), Rgb(173, 127, 168), Rgb(52, 226, 226),  Rgb(238, 238, 236) >>

\* One channel of the 6x6x6 cube.
CubeChannel(v) == IF v = 0 THEN 0 ELSE 55 + v * 40

\* ColorPalette::default().
DefaultPalette ==
    LET ansi_colors == [i \in 0..15 |-> rgb_to_hsla(DefaultAnsiRgb[i + 1])]
        extended_colors ==
            [i \in 0..255 |->
                IF i < 16 THEN ansi_colors[i]
                ELSE IF i < 232
                THEN LET k == i - 16
                     IN rgb_to_hsla(Rgb(CubeChannel(k \div 36),
                                        CubeChannel((k \div 6) % 6),
                                        CubeChannel(k % 6)))
                ELSE LET gray == (8 + (i - 232) * 10) % 256
                     IN rgb_to_hsla(Rgb(gray, gray, gray))]
    IN [ansi_colors     |-> ansi_colors,
        extended_colors |-> extended_colors,
        foreground      |-> rgb_to_hsla(Rgb(212, 212, 212)),
        background      |-> rgb_to_hsla(Rgb(30, 30, 30)),
        cursor          |-> rgb_to_hsla(Rgb(255, 255, 255))]

\* A variant that leaves the 256-colour table alone.
set_ansi_only(palette, index, rgb) ==
    [palette EXCEPT !.ansi_colors[index] = rgb_to_hsla(rgb)]

\* ColorPaletteBuilder::set_ansi_color(idx, r, g, b).
set_ansi_color(palette, index, rgb) ==
    LET color == rgb_to_hsla(rgb)
    IN [palette EXCEPT !.ansi_colors[index] = color, !.extended_colors[index] = color]

\* The sixteen public ANSI setters, in the order of their indices.
AnsiSetters ==
    << "black", "red", "green", "yellow", "blue", "magenta", "cyan", "white",
       "bright_black", "bright_red", "bright_green", "bright_yellow",
       "bright_blue", "bright_magenta", "bright_cyan", "bright_white" >>

\* The colours handed to the setters: the default red and one other colour.
BuilderRgbs == { Rgb(204, 0, 0), Rgb(40, 42, 54) }

BuilderOpen == ~fout.done /\ fin.n < MaxBuilderCalls

\* builder.black(..) .. builder.bright_white(..).
AnsiSetter ==
    /\ BuilderOpen
    /\ \E k \in 0..15, rgb \in BuilderRgbs :
        /\ fin' = [fn |-> AnsiSetters[k + 1], rgb |-> rgb, n |-> fin.n + 1]
        /\ fout' = [fout EXCEPT !.val = set_ansi_color(fout.val, k, rgb)]
    /\ UNCHANGED <<readerVars, taskVars, engineVars, cacheVars, viewVars,
                   eventVars, uiVars, sinkVars>>

\* builder.background(r, g, b).
BuilderBackground ==
    /\ BuilderOpen
    /\ \E rgb \in BuilderRgbs :
        /\ fin' = [fn |-> "background", rgb |-> rgb, n |-> fin.n + 1]
        /\ fout' = [fout EXCEPT !.val.background = rgb_to_hsla(rgb)]
    /\ UNCHANGED <<readerVars, taskVars, engineVars, cacheVars, viewVars,
                   eventVars, uiVars, sinkVars>>

\* builder.foreground(r, g, b).
BuilderForeground ==
    /\ BuilderOpen
    /\ \E rgb \in BuilderRgbs :
        /\ fin' = [fn |-> "foreground", rgb |-> rgb, n |-> fin.n + 1]
        /\ fout' = [fout EXCEPT !.val.foreground = rgb_to_hsla(rgb)]
    /\ UNCHANGED <<readerVars, taskVars, engineVars, cacheVars, viewVars,
                   eventVars, uiVars, sinkVars>>

\* builder.cursor(r, g, b).
BuilderCursor ==
    /\ BuilderOpen
    /\ \E rgb \in BuilderRgbs :
        /\ fin' = [fn |-> "cursor", rgb |-> rgb, n |-> fin.n + 1]
        /\ fout' = [fout EXCEPT !.val.cursor = rgb_to_hsla(rgb)]
    /\ UNCHANGED <<readerVars, taskVars, engineVars, cacheVars, viewVars,
                   eventVars, uiVars, sinkVars>>

\* builder.build().
BuilderBuild ==
    /\ ~fout.done
    /\ fin' = [fn |-> "build", rgb |-> Rgb(0, 0, 0), n |-> fin.n]
    /\ fout' = [fout EXCEPT !.done = TRUE]
    /\ UNCHANGED <<readerVars, taskVars, engineVars, cacheVars, viewVars,
                   eventVars, uiVars, sinkVars>>

\* --------------------------------------------------------------- box drawing
\* Option<BoxSegments>: None.
NoSegments == [some |-> FALSE]

\* BoxSegments::new(top, bottom, left, right); each an Option<LineWeight>,
\* "None", "Light", "Heavy" or "Double".  The shorthand constructors
\* (horizontal, vertical, corner_*, t_*, cross) are written out.
BoxSegmentsNew(top, bottom, left, right) ==
    [some |-> TRUE, top |-> top, bottom |-> bottom, left |-> left, right |-> right]

\* The arms of `match code` in get_box_segments, from 0x2500 to 0x257F.
BoxTable ==
    <<
       BoxSegmentsNew("None", "None", "Light", "Light"),  \* U+2500
       BoxSegmentsNew("None", "None", "Heavy", "Heavy"),  \* U+2501
       BoxSegmentsNew("Light", "Light", "None", "None"),  \* U+2502
       BoxSegmentsNew("Heavy", "Heavy", "None", "None"),  \* U+2503
       BoxSegmentsNew("None", "None", "Light", "Light"),  \* U+2504
       BoxSegmentsNew("None", "None", "Heavy", "Heavy"),  \* U+2505
       BoxSegmentsNew("Light", "Light", "None", "None"),  \* U+2506
       BoxSegmentsNew("Heavy", "Heavy", "None", "None"),  \* U+2507
       BoxSegmentsNew("None", "None", "Light", "Light"),  \* U+2508
       BoxSegmentsNew("None", "None", "Heavy", "Heavy"),  \* U+2509
       BoxSegmentsNew("Light", "Light", "None", "None"),  \* U+250A
       BoxSegmentsNew("Heavy", "Heavy", "None", "None"),  \* U+250B
       BoxSegmentsNew("None", "Light", "None", "Light"),  \* U+250C
       BoxSegmentsNew("None", "Light", "None", "Heavy"),  \* U+250D
       BoxSegmentsNew("None", "Heavy", "None", "Light"),  \* U+250E
       BoxSegmentsNew("None", "Heavy", "None", "Heavy"),  \* U+250F
       BoxSegmentsNew("None", "Light", "Light", "None"),  \* U+2510
       BoxSegmentsNew("None", "Light", "Heavy", "None"),  \* U+2511
       BoxSegmentsNew("None", "Heavy", "Light", "None"),  \* U+2512
       BoxSegmentsNew("None", "Heavy", "Heavy", "None"),  \* U+2513
       BoxSegmentsNew("Light", "None", "None", "Light"),  \* U+2514
       BoxSegmentsNew("Light", "None", "None", "Heavy"),  \* U+2515
       BoxSegmentsNew("Heavy", "None", "None", "Light"),  \* U+2516
       BoxSegmentsNew("Heavy", "None", "None", "Heavy"),  \* U+2517
       BoxSegmentsNew("Light", "None", "Light", "None"),  \* U+2518
       BoxSegmentsNew("Light", "None", "Heavy", "None"),  \* U+2519
       BoxSegmentsNew("Heavy", "None", "Light", "None"),  \* U+251A
       BoxSegmentsNew("Heavy", "None", "Heavy", "None"),  \* U+251B
       BoxSegmentsNew("Light", "Light", "None", "Light"),  \* U+251C
       BoxSegmentsNew("Light", "Light", "None", "Heavy"),  \* U+251D
       BoxSegmentsNew("Heavy", "Light", "None", "Light"),  \* U+251E
       BoxSegmentsNew("Light", "Heavy", "None", "Light"),  \* U+251F
       BoxSegmentsNew("Heavy", "Heavy", "None", "Light"),  \* U+2520
       BoxSegmentsNew("Heavy", "Light", "None", "Heavy"),  \* U+2521
       BoxSegmentsNew("Light", "Heavy", "None", "Heavy"),  \* U+2522
       BoxSegmentsNew("Heavy", "Heavy", "None", "Heavy"),  \* U+2523
       BoxSegmentsNew("Light", "Light", "Light", "None"),  \* U+2524
       BoxSegmentsNew("Light", "Light", "Heavy", "None"),  \* U+2525
       BoxSegmentsNew("Heavy", "Light", "Light", "None"),  \* U+2526
       BoxSegmentsNew("Light", "Heavy", "Light", "None"),  \* U+2527
       BoxSegmentsNew("Heavy", "Heavy", "Light", "None"),  \* U+2528
       BoxSegmentsNew("Heavy", "Light", "Heavy", "None"),  \* U+2529
       BoxSegmentsNew("Light", "Heavy", "Heavy", "None"),  \* U+252A
       BoxSegmentsNew("Heavy", "Heavy", "Heavy", "None"),  \* U+252B
       BoxSegmentsNew("None", "Light", "Light", "Light"),  \* U+252C
       BoxSegmentsNew("None", "Light", "Heavy", "Light"),  \* U+252D
       BoxSegmentsNew("None", "Light", "Light", "Heavy"),  \* U+252E
       BoxSegmentsNew("None", "Heavy", "Light", "Light"),  \* U+252F
       BoxSegmentsNew("None", "Heavy", "Heavy", "Light"),  \* U+2530
       BoxSegmentsNew("None", "Heavy", "Light", "Heavy"),  \* U+2531
       BoxSegmentsNew("None", "Light", "Heavy", "Heavy"),  \* U+2532
       BoxSegmentsNew("None", "Heavy", "Heavy", "Heavy"),  \* U+2533
       BoxSegmentsNew("Light", "None", "Light", "Light"),  \* U+2534
       BoxSegmentsNew("Light", "None", "Heavy", "Light"),  \* U+2535
       BoxSegmentsNew("Light", "None", "Light", "Heavy"),  \* U+2536
       BoxSegmentsNew("Heavy", "None", "Light", "Light"),  \* U+2537
       BoxSegmentsNew("Heavy", "None", "Heavy", "Light"),  \* U+2538
       BoxSegmentsNew("Heavy", "None", "Light", "Heavy"),  \* U+2539
       BoxSegmentsNew("Light", "None", "Heavy", "Heavy"),  \* U+253A
       BoxSegmentsNew("Heavy", "None", "Heavy", "Heavy"),  \* U+253B
       BoxSegmentsNew("Light", "Light", "Light", "Light"),  \* U+253C
       BoxSegmentsNew("Light", "Light", "Heavy", "Light"),  \* U+253D
       BoxSegmentsNew("Light", "Light", "Light", "Heavy"),  \* U+253E
       BoxSegmentsNew("Light", "Light", "Heavy", "Heavy"),  \* U+253F
       BoxSegmentsNew("Heavy", "Light", "Light", "Light"),  \* U+2540
       BoxSegmentsNew("Light", "Heavy", "Light", "Light"),  \* U+2541
       BoxSegmentsNew("Heavy", "Heavy", "Light", "Light"),  \* U+2542
       BoxSegmentsNew("Heavy", "Light", "Heavy", "Light"),  \* U+2543
       BoxSegmentsNew("Heavy", "Light", "Light", "Heavy"),  \* U+2544
       BoxSegmentsNew("Light", "Heavy", "Heavy", "Light"),  \* U+2545
       BoxSegmentsNew("Light", "Heavy", "Light", "Heavy"),  \* U+2546
       BoxSegmentsNew("Heavy", "Heavy", "Heavy", "Light"),  \* U+2547
       BoxSegmentsNew("Heavy", "Heavy", "Light", "Heavy"),  \* U+2548
       BoxSegmentsNew("Heavy", "Light", "Heavy", "Heavy"),  \* U+2549
       BoxSegmentsNew("Light", "Heavy", "Heavy", "Heavy"),  \* U+254A
       BoxSegmentsNew("Heavy", "Heavy", "Heavy", "Heavy"),  \* U+254B
       BoxSegmentsNew("None", "None", "Light", "Light"),  \* U+254C
       BoxSegmentsNew("None", "None", "Heavy", "Heavy"),  \* U+254D
       BoxSegmentsNew("Light", "Light", "None", "None"),  \* U+254E
       BoxSegmentsNew("Heavy", "Heavy", "None", "None"),  \* U+254F
       BoxSegmentsNew("None", "None", "Double", "Double"),  \* U+2550
       BoxSegmentsNew("Double", "Double", "None", "None"),  \* U+2551
       BoxSegmentsNew("None", "Light", "None", "Double"),  \* U+2552
       BoxSegmentsNew("None", "Double", "None", "Light"),  \* U+2553
       BoxSegmentsNew("None", "Double", "None", "Double"),  \* U+2554
       BoxSegmentsNew("None", "Light", "Double", "None"),  \* U+2555
       BoxSegmentsNew("None", "Double", "Light", "None"),  \* U+2556
       BoxSegmentsNew("None", "Double", "Double", "None"),  \* U+2557
       BoxSegmentsNew("Light", "None", "None", "Double"),  \* U+2558
       BoxSegmentsNew("Double", "None", "None", "Light"),  \* U+2559
       BoxSegmentsNew("Double", "None", "None", "Double"),  \* U+255A
       BoxSegmentsNew("Light", "None", "Double", "None"),  \* U+255B
       BoxSegmentsNew("Double", "None", "Light", "None"),  \* U+255C
       BoxSegmentsNew("Double", "None", "Double", "None"),  \* U+255D
       BoxSegmentsNew("Light", "Light", "None", "Double"),  \* U+255E
       BoxSegmentsNew("Double", "Double", "None", "Light"),  \* U+255F
       BoxSegmentsNew("Double", "Double", "None", "Double"),  \* U+2560
       BoxSegmentsNew("Light", "Light", "Double", "None"),  \* U+2561
       BoxSegmentsNew("Double", "Double", "Light", "None"),  \* U+2562
       BoxSegmentsNew("Double", "Double", "Double", "None"),  \* U+2563
       BoxSegmentsNew("None", "Light", "Double", "Double"),  \* U+2564
       BoxSegmentsNew("None", "Double", "Light", "Light"),  \* U+2565
       BoxSegmentsNew("None", "Double", "Double", "Double"),  \* U+2566
       BoxSegmentsNew("Light", "None", "Double", "Double"),  \* U+2567
       BoxSegmentsNew("Double", "None", "Light", "Light"),  \* U+2568
       BoxSegmentsNew("Double", "None", "Double", "Double"),  \* U+2569
       BoxSegmentsNew("Light", "Light", "Double", "Double"),  \* U+256A
       BoxSegmentsNew("Double", "Double", "Light", "Light"),  \* U+256B
       BoxSegmentsNew("Double", "Double", "Double", "Double"),  \* U+256C
       BoxSegmentsNew("None", "Light", "None", "Light"),  \* U+256D
       BoxSegmentsNew("None", "Light", "Light", "None"),  \* U+256E
       BoxSegmentsNew("Light", "None", "Light", "None"),  \* U+256F
       BoxSegmentsNew("Light", "None", "None", "Light"),  \* U+2570
       NoSegments,  \* U+2571
       NoSegments,  \* U+2572
       NoSegments,  \* U+2573
       BoxSegmentsNew("None", "None", "Light", "None"),  \* U+2574
       BoxSegmentsNew("Light", "None", "None", "None"),  \* U+2575
       BoxSegmentsNew("None", "None", "None", "Light"),  \* U+2576
       BoxSegmentsNew("None", "Light", "None", "None"),  \* U+2577
       BoxSegmentsNew("None", "None", "Heavy", "None"),  \* U+2578
       BoxSegmentsNew("Heavy", "None", "None", "None"),  \* U+2579
       BoxSegmentsNew("None", "None", "None", "Heavy"),  \* U+257A
       BoxSegmentsNew("None", "Heavy", "None", "None"),  \* U+257B
       BoxSegmentsNew("None", "None", "Light", "Heavy"),  \* U+257C
       BoxSegmentsNew("Light", "Heavy", "None", "None"),  \* U+257D
       BoxSegmentsNew("None", "None", "Heavy", "Light"),  \* U+257E
       BoxSegmentsNew("Heavy", "Light", "None", "None")   \* U+257F
    >>

\* A lookup whose range test leaves the last character of the block out.
segments_short_range(ch) ==
    IF ch < 9472 \/ ch >= 9599 THEN NoSegments
    ELSE BoxTable[ch - 9472 + 1]

\* get_box_segments(ch), ch a Unicode scalar value.
get_box_segments(ch) ==
    IF ch < 9472 \/ ch > 9599 THEN NoSegments
    ELSE IF ch - 9472 + 1 \in DOMAIN BoxTable THEN BoxTable[ch - 9472 + 1]
    ELSE NoSegments

\* is_box_drawing_char(ch).
is_box_drawing_char(ch) == ch >= 9472 /\ ch <= 9599

\* A lookup that takes either side's weight as the horizontal weight.
either_side_weight(ch) ==
    LET weight_of(segments) ==
            IF ~segments.some THEN "None"
            ELSE IF segments.left # "None" THEN segments.left
            ELSE segments.right
    IN weight_of(get_box_segments(ch))

\* get_horizontal_weight(ch).
get_horizontal_weight(ch) ==
    LET weight_of(segments) ==
            IF ~segments.some THEN "None"
            ELSE IF segments.left # "None" /\ segments.right # "None"
                    /\ segments.left = segments.right
            THEN segments.left
            ELSE "None"
    IN weight_of(get_box_segments(ch))

\* calculate_thickness and get_thickness: the stroke width for a weight.
Thickness(weight, cell_width) ==
    LET light == Max((15 * cell_width + 50) \div 100, 1)
        heavy == Max((28 * cell_width + 50) \div 100, 2)
    IN IF weight = "Heavy" THEN heavy ELSE light

\* draw_horizontal_span(start_x, end_x, cy, weight, cell_width, ..): the
\* lines that draw_continuous_line strokes, one for Light and Heavy, two
\* parallel ones for Double.
draw_horizontal_span(start_x, end_x, cy, weight, cell_width) ==
    LET thickness == Thickness(weight, cell_width)
        line(y) == [from_x |-> start_x, to_x |-> end_x, y |-> y, thickness |-> thickness]
    IN IF weight = "Double"
       THEN <<line(cy - thickness), line(cy + thickness)>>
       ELSE <<line(cy)>>

\* palette.resolve(color, colors) for the default palette and no overrides.
resolve(color) ==
    LET pick(palette) ==
            IF color.kind = "Named"
            THEN (IF color.idx < 16 THEN palette.ansi_colors[color.idx]
                  ELSE IF color.idx = 257 THEN palette.background
                  ELSE palette.foreground)
            ELSE palette.extended_colors[color.idx]
    IN pick(DefaultPalette)

\* The renderer's geometry: origin.x, cell_width, cell_height (even, so that
\* the row's centre is a whole pixel) and the row painted.
PaintGeom == [origin_x |-> 8, origin_y |-> 4, cell_width |-> 10, cell_height |-> 20,
              line_idx |-> 1]

RECURSIVE SpanEnd(_, _, _, _, _)
\* The look-ahead loop of pass A: [end_col, j] when it stops.
SpanEnd(cells_vec, j, end_col, weight, fg_color) ==
    IF j > Len(cells_vec) THEN [end_col |-> end_col, j |-> j]
    ELSE LET next_col  == cells_vec[j][1]
             next_cell == cells_vec[j][2]
         IN IF next_col # end_col + 1 THEN [end_col |-> end_col, j |-> j]
            ELSE IF get_horizontal_weight(next_cell.c) = weight
                    /\ resolve(next_cell.fg) = fg_color
            THEN SpanEnd(cells_vec, j + 1, next_col, weight, fg_color)
            ELSE [end_col |-> end_col, j |-> j]

RECURSIVE HorizontalSpans(_, _)
\* Pass A of paint from index i on (1-based): the span calls, in order.
HorizontalSpans(cells_vec, i) ==
    IF i > Len(cells_vec) THEN <<>>
    ELSE LET col_idx == cells_vec[i][1]
             cell    == cells_vec[i][2]
             start_x == PaintGeom.origin_x + PaintGeom.cell_width * col_idx
             cy      == PaintGeom.origin_y + PaintGeom.cell_height * PaintGeom.line_idx
                        + PaintGeom.cell_height \div 2
             \* the span drawn once the look-ahead loop has stopped
             span(weight, fg_color, stop) ==
                 LET end_x == PaintGeom.origin_x
                              + PaintGeom.cell_width * (stop.end_col + 1)
                 IN << [op |-> "draw_horizontal_span", start_col |-> col_idx,
                        end_col |-> stop.end_col, weight |-> weight, color |-> fg_color,
                        cy |-> cy,
                        lines |-> draw_horizontal_span(start_x, end_x, cy, weight,
                                                       PaintGeom.cell_width)] >>
                    \o HorizontalSpans(cells_vec, stop.j)
             from(weight, fg_color) ==
                 span(weight, fg_color,
                      SpanEnd(cells_vec, i + 1, col_idx, weight, fg_color))
             pass(weight) ==
                 IF weight # "None" THEN from(weight, resolve(cell.fg))
                 ELSE HorizontalSpans(cells_vec, i + 1)
         IN pass(get_horizontal_weight(cell.c))

\* The body of paint's loop over one line: pass A, pass B, text pass.  Each
\* call is one record; `drawn` tells whether the call put anything on screen.
PaintRow(cells) ==
    LET cells_vec == [i \in 1..Len(cells) |-> <<i - 1, cells[i]>>]
        blank(ch) == ch = 32 \/ ch = 0
        box(col_idx, ch, segments, processed_horizontal) ==
            IF blank(ch) \/ ~is_box_drawing_char(ch) THEN <<>>
            ELSE IF col_idx \in processed_horizontal
            THEN << [op |-> "draw_vertical_components", col |-> col_idx, ch |-> ch,
                     drawn |-> segments.some
                               /\ (segments.top # "None" \/ segments.bottom # "None")] >>
            ELSE << [op |-> "draw_box_character", col |-> col_idx, ch |-> ch,
                     drawn |-> segments.some] >>
        second(i, processed_horizontal) ==
            box(cells_vec[i][1], cells_vec[i][2].c, get_box_segments(cells_vec[i][2].c),
                processed_horizontal)
        third(i) ==
            LET col_idx == cells_vec[i][1]
                ch == cells_vec[i][2].c
            IN IF blank(ch) \/ is_box_drawing_char(ch) THEN <<>>
               ELSE << [op |-> "shape_line", col |-> col_idx, ch |-> ch, drawn |-> TRUE] >>
        covered(spans) ==
            UNION { spans[k].start_col .. spans[k].end_col : k \in 1..Len(spans) }
        passes(spans, processed_horizontal) ==
            spans \o Flatten([i \in 1..Len(cells) |-> second(i, processed_horizontal)])
                  \o Flatten([i \in 1..Len(cells) |-> third(i)])
        after(spans) == passes(spans, covered(spans))
    IN after(HorizontalSpans(cells_vec, 1))

\* A grid cell: character, colours and flags.
Cell(c, fg, bg, flags) == [c |-> c, fg |-> fg, bg |-> bg, flags |-> flags]

Named(i) == [kind |-> "Named", idx |-> i]
Indexed(i) == [kind |-> "Indexed", idx |-> i]

\* The characters looked up: the block, its neighbours on both sides, and a
\* few characters far from it.
BoxCalls ==
    { [fn |-> "get_box_segments", ch |-> ch] : ch \in (9460..9610) \cup {0, 32, 65, 20013} }

\* The rows painted: every row of three cells over blank, 'A', U+2500,
\* U+2501, U+253C, U+250C and the diagonal U+2571 in three foreground
\* colours (two of them resolve to the same colour), and the row with five
\* U+2500 in columns 2..6 of ten.
PaintCalls ==
    LET PaintCells ==
            { Cell(ch, fg, Named(257), {}) :
                ch \in {32, 65, 9472, 9473, 9532, 9484, 9585},
                fg \in {Named(1), Indexed(1), Indexed(2)} }
    IN { [fn |-> "paint", cells |-> <<a, b, c>>] :
           a \in PaintCells, b \in PaintCells, c \in PaintCells }
       \cup { [fn |-> "paint",
               cells |-> [i \in 1..10 |-> Cell(IF i \in 3..7 THEN 9472 ELSE 32,
                                               Named(256), Named(257), {})]] }

\* One call of get_box_segments.
GetBoxSegments ==
    /\ ~fout.done
    /\ fin.fn = "get_box_segments"
    /\ fout' = [done |-> TRUE, val |-> get_box_segments(fin.ch)]
    /\ UNCHANGED <<fin, readerVars, taskVars, engineVars, cacheVars, viewVars,
                   eventVars, uiVars, sinkVars>>

\* paint() for one row of the grid.
Paint ==
    /\ ~fout.done
    /\ fin.fn = "paint"
    /\ fout' = [done |-> TRUE, val |-> PaintRow(fin.cells)]
    /\ UNCHANGED <<fin, readerVars, taskVars, engineVars, cacheVars, viewVars,
                   eventVars, uiVars, sinkVars>>

\* A rectangle test that does not look at the row.
can_merge_any_row(self, other) ==
    self.color = other.color /\ self.end_col = other.start_col

\* BackgroundRect::can_merge_with(&self, other).
can_merge_with(self, other) ==
    self.row = other.row /\ self.color = other.color /\ self.end_col = other.start_col

RECURSIVE MergeLoop(_, _, _, _)
\* `for rect in rects` of merge_backgrounds, from index i on.
MergeLoop(rects, i, merged, current) ==
    IF i > Len(rects) THEN Append(merged, current)
    ELSE IF can_merge_with(current, rects[i])
    THEN MergeLoop(rects, i + 1, merged, [current EXCEPT !.end_col = rects[i].end_col])
    ELSE MergeLoop(rects, i + 1, Append(merged, current), rects[i])

\* TerminalRenderer::merge_backgrounds(rects).
merge_backgrounds(rects) ==
    IF rects = <<>> THEN rects ELSE MergeLoop(rects, 2, <<>>, rects[1])

RECURSIVE LayoutLoop(_, _, _, _)
\* `for (col, cell) in cells` of layout_row, from index i on.  current_run
\* and current_bg of the state are Options: <<>> or a one-element sequence.
LayoutLoop(row, cells, i, st) ==
    IF i > Len(cells) THEN st
    ELSE LET col  == cells[i][1]
             cell == cells[i][2]
         IN IF "WIDE_CHAR_SPACER" \in cell.flags THEN LayoutLoop(row, cells, i + 1, st)
            ELSE LET bold      == "BOLD" \in cell.flags
                     italic    == "ITALIC" \in cell.flags
                     underline == "UNDERLINE" \in cell.flags
                     ch        == IF cell.c = 32 \/ cell.c = 0 THEN 32 ELSE cell.c
                     step(fg_color, bg_color) ==
                         LET new_bg  == [start_col |-> col, end_col |-> col + 1,
                                         row |-> row, color |-> bg_color]
                             new_run == [text |-> <<ch>>, start_col |-> col, row |-> row,
                                         fg_color |-> fg_color, bg_color |-> bg_color,
                                         bold |-> bold, italic |-> italic,
                                         underline |-> underline]
                             \* the text-run half of the body, on the state the
                             \* background half leaves
                             text_half(st1) ==
                                 IF st1.current_run # <<>>
                                 THEN LET run == st1.current_run[1]
                                      IN IF /\ run.fg_color = fg_color
                                            /\ run.bg_color = bg_color
                                            /\ run.bold = bold
                                            /\ run.italic = italic
                                            /\ run.underline = underline
                                         THEN [st1 EXCEPT !.current_run =
                                                  <<[run EXCEPT !.text = Append(@, ch)]>>]
                                         ELSE [st1 EXCEPT !.text_runs = Append(@, run),
                                                          !.current_run = <<new_run>>]
                                 ELSE [st1 EXCEPT !.current_run = <<new_run>>]
                         IN text_half(
                                IF st.current_bg # <<>>
                                THEN LET bg_rect == st.current_bg[1]
                                     IN IF bg_rect.color = bg_color /\ bg_rect.end_col = col
                                        THEN [st EXCEPT !.current_bg =
                                                 <<[bg_rect EXCEPT !.end_col = col + 1]>>]
                                        ELSE [st EXCEPT !.backgrounds = Append(@, bg_rect),
                                                        !.current_bg = <<new_bg>>]
                                ELSE [st EXCEPT !.current_bg = <<new_bg>>])
                 IN LayoutLoop(row, cells, i + 1,
                               step(resolve(cell.fg), resolve(cell.bg)))

\* TerminalRenderer::layout_row(row, cells, colors): the merged backgrounds
\* and the text runs.
layout_row(row, cells) ==
    LET st == LayoutLoop(row, cells, 1,
                         [backgrounds |-> <<>>, text_runs |-> <<>>,
                          current_run |-> <<>>, current_bg |-> <<>>])
    IN [backgrounds |-> merge_backgrounds(st.backgrounds \o st.current_bg),
        text_runs   |-> st.text_runs \o st.current_run]

\* The rows laid out: three cells over 'A' in several styles, a blank, a NUL,
\* and the wide U+4E2D, which the grid always follows with a spacer cell.
LayoutCalls ==
    LET plain == Cell(65, Named(256), Named(257), {})
        wide  == Cell(20013, Named(256), Named(257), {"WIDE_CHAR"})
        cellset ==
            { plain, wide,
              Cell(32, Named(256), Named(257), {"WIDE_CHAR_SPACER"}),
              Cell(65, Named(256), Named(257), {"BOLD"}),
              Cell(65, Named(1), Named(257), {}),
              Cell(65, Indexed(1), Named(257), {}),
              Cell(65, Named(256), Indexed(2), {}),
              Cell(32, Named(256), Named(257), {}),
              Cell(0, Named(256), Indexed(2), {"UNDERLINE"}) }
        spacer(c) == "WIDE_CHAR_SPACER" \in c.flags
        grid_row(r) ==
            /\ ~spacer(r[1])
            /\ \A i \in 2..Len(r) : spacer(r[i]) <=> "WIDE_CHAR" \in r[i - 1].flags
            /\ "WIDE_CHAR" \notin r[Len(r)].flags
    IN { [fn |-> "layout_row", row |-> 1,
          cells |-> [i \in 1..3 |-> <<i - 1, r[i]>>]] :
            r \in { q \in cellset \X cellset \X cellset : grid_row(q) } }

\* The lists merged: up to three rectangles over columns 0..3 in two colours,
\* one of them also on another row.
MergeCalls ==
    LET rect(a, b, r, c) == [start_col |-> a, end_col |-> b, row |-> r, color |-> resolve(c)]
        rectset == { rect(iv[1], iv[2], 0, c) :
                        iv \in { <<0, 1>>, <<1, 2>>, <<2, 3>>, <<0, 2>>, <<1, 3>>, <<0, 3>> },
                        c \in {Named(257), Indexed(2)} }
                   \cup { rect(1, 2, 1, c) : c \in {Named(257), Indexed(2)} }
    IN { [fn |-> "merge_backgrounds", rects |-> q] :
            q \in {<<>>} \cup { <<a>> : a \in rectset } \cup (rectset \X rectset)
                  \cup (rectset \X rectset \X rectset) }

\* One call of layout_row.
LayoutRow ==
    /\ ~fout.done
    /\ fin.fn = "layout_row"
    /\ fout' = [done |-> TRUE, val |-> layout_row(fin.row, fin.cells)]
    /\ UNCHANGED <<fin, readerVars, taskVars, engineVars, cacheVars, viewVars,
                   eventVars, uiVars, sinkVars>>

\* One call of merge_backgrounds.
MergeBackgrounds ==
    /\ ~fout.done
    /\ fin.fn = "merge_backgrounds"
    /\ fout' = [done |-> TRUE, val |-> merge_backgrounds(fin.rects)]
    /\ UNCHANGED <<fin, readerVars, taskVars, engineVars, cacheVars, viewVars,
                   eventVars, uiVars, sinkVars>>

\* --------------------------------------------------------------- UI thread

\* A process_bytes call has consumed some but not all of its bytes.
MidCall == tpc = "advance" /\ idx > 0

\* What a UI-thread critical section on the engine finds.
Observe(by, t) == [by |-> by, mid |-> MidCall, mode |-> t.mode, grid |-> t.grid]

\* The callback one received event leads to: none when the host installed no
\* callback for it, and none at all for Wakeup and ClipboardLoad.
EventCallback(ev) ==
    CASE ev.kind = "Bell" /\ "bell" \in cbs -> <<[cb |-> "bell", arg |-> ""]>>
      [] ev.kind = "Title" /\ "title" \in cbs -> <<[cb |-> "title", arg |-> ev.data]>>
      [] ev.kind = "ClipboardStore" /\ "clipboard_store" \in cbs ->
             <<[cb |-> "clipboard_store", arg |-> ev.data]>>
      [] ev.kind = "Exit" /\ "exit" \in cbs -> <<[cb |-> "exit", arg |-> ""]>>
      [] OTHER -> <<>>

RECURSIVE EventCallbacks(_)
EventCallbacks(q) ==
    IF q = <<>> THEN <<>> ELSE EventCallback(Head(q)) \o EventCallbacks(Tail(q))

\* The events the `while let Ok(event) = self.event_rx.try_recv()` loop
\* receives: all that are queued.
DrainOne(q) == IF q = <<>> THEN <<>> ELSE <<Head(q)>>
Drained(q) == q

\* Render::render up to the canvas: process_events drains the event channel
\* and the paint closure is built for this frame.
Render ==
    /\ upc = "idle"
    /\ alive
    /\ npaints < MaxPaints
    /\ LET got == Drained(event_q)
       IN /\ dispatched' = dispatched \o got
          /\ calls' = calls \o EventCallbacks(got)
          /\ event_q' = SubSeq(event_q, Len(got) + 1, Len(event_q))
    /\ drain_mark' = Len(sent)
    /\ npaints' = npaints + 1
    /\ dirty' = FALSE
    /\ upc' = "paint"
    /\ UNCHANGED <<callVars, readerVars, taskVars, engineVars, cacheVars, alive, cbs,
                   config, geom, sent, pending, nkeys, nresizes, seen, oplog,
                   keylog, sinkVars>>

\* The frame the host renders because the view called cx.notify(): the same
\* render, scheduled for a view that is marked for a repaint.
Repaint ==
    /\ upc = "idle"
    /\ alive
    /\ dirty
    /\ LET got == Drained(event_q)
       IN /\ dispatched' = dispatched \o got
          /\ calls' = calls \o EventCallbacks(got)
          /\ event_q' = SubSeq(event_q, Len(got) + 1, Len(event_q))
    /\ drain_mark' = Len(sent)
    /\ npaints' = npaints + 1
    /\ dirty' = FALSE
    /\ upc' = "paint"
    /\ UNCHANGED <<callVars, readerVars, taskVars, engineVars, cacheVars, alive, cbs,
                   config, geom, sent, pending, nkeys, nresizes, seen, oplog,
                   keylog, sinkVars>>

\* `(x / cell) as usize`: the f32 quotient truncated, negative values to 0.
\* Cell metrics are positive (measure_cell keeps the old value otherwise).
QuotAsUsize(avail, cell) == IF avail < 0 THEN 0 ELSE avail \div cell

\* The dimensions the paint closure computes from bounds, padding and cell.
PaintDims(g) ==
    [cols |-> Max(QuotAsUsize(g.w - g.pad - g.pad, g.cw), 1),
     rows |-> Max(QuotAsUsize(g.h - g.pad - g.pad, g.ch), 1)]

\* `cols != current_cols || rows != current_rows`
DimsDifferBoth(cols, rows, t) == cols # t.columns /\ rows # t.screen_lines
DimsDiffer(cols, rows, t) == cols # t.columns \/ rows # t.screen_lines

Op(op, c, r) == [op |-> op, c |-> c, r |-> r]

\* The branch taken when the dimensions differ: the resize callback, if one
\* is installed, and then the engine's resize.
ResizeThenNotify(cols, rows) ==
    <<Op("term_resize", cols, rows)>> \o
    (IF "resize" \in cbs THEN <<Op("resize_callback", cols, rows)>> ELSE <<>>)
NotifyThenResize(cols, rows) ==
    (IF "resize" \in cbs THEN <<Op("resize_callback", cols, rows)>> ELSE <<>>)
    \o <<Op("term_resize", cols, rows)>>

\* The canvas paint closure: measure, compute the grid size, lock the engine,
\* resize it if the size changed, and paint it; the lock guard lives to the
\* end of the closure.
PaintClosure ==
    /\ upc = "paint"
    /\ term_lock = "free"
    /\ LET d      == PaintDims(geom)
           differ == DimsDiffer(d.cols, d.rows, term)
           after  == IF differ THEN TermResize(term, d.cols, d.rows) ELSE term
       IN /\ oplog' = oplog \o <<Op("paint", d.cols, d.rows)>>
                        \o (IF differ THEN NotifyThenResize(d.cols, d.rows) ELSE <<>>)
          /\ term' = after
          /\ seen' = Observe("paint", after)
    /\ upc' = "idle"
    /\ UNCHANGED <<callVars, readerVars, taskVars, parser, term_lock, cacheVars,
                   viewVars, eventVars, pending, npaints, nkeys, nresizes,
                   drain_mark, keylog, sinkVars>>

\* The arguments a host passes to the public TerminalView::resize.
ResizeArgs == { [c |-> 120, r |-> 30], [c |-> 80, r |-> 24], [c |-> 0, r |-> 0] }

\* TerminalView::resize -> TerminalState::resize: the cached dimensions are
\* set, then the engine is resized under its lock.
PublicResize(args) ==
    /\ upc = "idle"
    /\ alive
    /\ nresizes < MaxResizes
    /\ term_lock = "free"
    /\ \E a \in args :
          /\ st_cols' = a.c
          /\ st_rows' = a.r
          /\ term' = TermResize(term, a.c, a.r)
          /\ oplog' = oplog \o <<Op("state_resize", a.c, a.r), Op("term_resize", a.c, a.r)>>
          /\ seen' = Observe("resize", term)
    /\ nresizes' = nresizes + 1
    /\ UNCHANGED <<callVars, readerVars, taskVars, parser, term_lock, viewVars,
                   eventVars, upc, pending, npaints, nkeys, drain_mark,
                   keylog, sinkVars>>

\* The bounds the host lays the canvas out with.
Bounds == { [w |-> 800, h |-> 480], [w |-> 800, h |-> 200], [w |-> 5, h |-> 5] }

\* The host gives the element new bounds (the prepaint closure of the canvas
\* passes them on unchanged).
HostLayout ==
    /\ upc = "idle"
    /\ alive
    /\ \E b \in Bounds : geom' = [geom EXCEPT !.w = b.w, !.h = b.h]
    /\ UNCHANGED <<callVars, readerVars, taskVars, engineVars, cacheVars, alive, cbs,
                   config, dirty, eventVars, uiVars, sinkVars>>

\* Padding and font (hence cell metrics) a host configures.
Metrics == { [pad |-> 0, cw |-> 10, ch |-> 20], [pad |-> 10, cw |-> 8, ch |-> 16] }

\* TerminalView::update_config: the renderer's font and the padding change
\* and a repaint is requested.
UpdateConfig ==
    /\ upc = "idle"
    /\ alive
    /\ \E m \in Metrics : geom' = [geom EXCEPT !.pad = m.pad, !.cw = m.cw, !.ch = m.ch]
    /\ dirty' = TRUE
    /\ UNCHANGED <<callVars, readerVars, taskVars, engineVars, cacheVars, alive, cbs,
                   config, eventVars, uiVars, sinkVars>>

\* The last handle to the view entity is released between frames: the view,
\* its event receiver and its Task handle are dropped.
DropView ==
    /\ upc = "idle"
    /\ alive
    /\ tpc # "advance"
    /\ alive' = FALSE
    /\ UNCHANGED <<callVars, readerVars, taskVars, engineVars, cacheVars, cbs, config,
                   geom, dirty, eventVars, uiVars, sinkVars>>

\* ------------------------------------------------------------- key input

\* The key-down events the host delivers: an arrow, Ctrl+C, a bare modifier
\* press and Ctrl++.
Keystrokes ==
    { Keystroke("up", FALSE, FALSE, FALSE, None),
      Keystroke("c", TRUE, FALSE, FALSE, None),
      Keystroke("shift", FALSE, FALSE, TRUE, None),
      Keystroke("+", TRUE, FALSE, FALSE, None) }

\* The host's key handler, as in the example of with_key_handler: it consumes
\* Ctrl++ and lets every other key through.
KeyHandler(ks) == ks.control /\ ks.key = "+"

\* self.state.mode(): the engine's mode, read under the engine lock.
EmptyMode(t) == {}
StateMode(t) == t.mode

\* The calls on_key_down makes on the locked writer for Some(bytes).
WriteOnly(bytes) == <<[call |-> "write_all", bytes |-> bytes]>>
WriteAndFlush(bytes) ==
    <<[call |-> "write_all", bytes |-> bytes], [call |-> "flush", bytes |-> <<>>]>>

\* The sink as a buffered writer: write_all buffers, flush hands the buffer
\* to the PTY; both return an error and do nothing once the sink fails.
SinkCall(sk, c) ==
    IF ~sk.ok THEN sk
    ELSE IF c.call = "write_all" THEN [sk EXCEPT !.wbuf = @ \o c.bytes]
    ELSE [sk EXCEPT !.pty_in = @ \o sk.wbuf, !.wbuf = <<>>]

RECURSIVE SinkCalls(_, _)
SinkCalls(sk, cs) ==
    IF cs = <<>> THEN sk ELSE SinkCalls(SinkCall(sk, Head(cs)), Tail(cs))

KeyEntry(ks, consumed, out) ==
    [ks |-> ks, consumed |-> consumed, nproc |-> Len(processed), out |-> out]

\* on_key_down up to the write: the key handler may consume the event;
\* otherwise the keystroke is encoded against the engine's mode.
KeyDown(keys) ==
    /\ upc = "idle"
    /\ alive
    /\ nkeys < MaxKeys
    /\ nkeys' = nkeys + 1
    /\ \E ks \in keys :
          IF "key" \in cbs /\ KeyHandler(ks)
          THEN /\ keylog' = Append(keylog, KeyEntry(ks, TRUE, None))
               /\ UNCHANGED <<upc, pending, seen>>
          ELSE /\ term_lock = "free"
               /\ LET out == keystroke_to_bytes(ks, StateMode(term))
                  IN /\ keylog' = Append(keylog, KeyEntry(ks, FALSE, out))
                     /\ upc' = IF out.some THEN "key_write" ELSE "idle"
                     /\ pending' = IF out.some THEN out.bytes ELSE pending
               /\ seen' = Observe("mode", term)
    /\ UNCHANGED <<callVars, readerVars, taskVars, engineVars, cacheVars, viewVars,
                   eventVars, npaints, nresizes, drain_mark, oplog, sinkVars>>

\* The guard `term` of TerminalState::mode() kept alive by the caller.
KeepModeGuard(owner) == owner

\* TerminalState::mode(): `let term = self.term.lock(); *term.mode()`; the
\* guard is dropped when mode() returns.
DropModeGuard(owner) == "free"

\* on_key_down at the grain of its locks.  First step: the key handler may
\* consume the event; otherwise self.state.mode() locks the engine.
KeyLockEngine(keys) ==
    /\ upc = "idle"
    /\ alive
    /\ nkeys < MaxKeys
    /\ nkeys' = nkeys + 1
    /\ \E ks \in keys :
          /\ fin' = [fn |-> "on_key_down", ks |-> ks]
          /\ IF "key" \in cbs /\ KeyHandler(ks)
             THEN /\ keylog' = Append(keylog, KeyEntry(ks, TRUE, None))
                  /\ UNCHANGED <<upc, term_lock>>
             ELSE /\ term_lock = "free"
                  /\ term_lock' = "ui"
                  /\ upc' = "mode"
                  /\ UNCHANGED keylog
    /\ UNCHANGED <<fout, readerVars, taskVars, term, parser, cacheVars, viewVars,
                   eventVars, pending, npaints, nresizes, seen, drain_mark, oplog,
                   sinkVars>>

\* Second step: mode() copies the mode and returns, and the keystroke is
\* encoded against the copy.
KeyMode ==
    /\ upc = "mode"
    /\ LET out == keystroke_to_bytes(fin.ks, StateMode(term))
       IN /\ keylog' = Append(keylog, KeyEntry(fin.ks, FALSE, out))
          /\ upc' = IF out.some THEN "key_lock" ELSE "idle"
          /\ pending' = IF out.some THEN out.bytes ELSE pending
    /\ seen' = Observe("mode", term)
    /\ term_lock' = DropModeGuard(term_lock)
    /\ UNCHANGED <<callVars, readerVars, taskVars, term, parser, cacheVars, viewVars,
                   eventVars, npaints, nkeys, nresizes, drain_mark, oplog, sinkVars>>

\* Third step: self.stdin_writer.lock(); KeyWrite is the fourth.
KeyLockWriter ==
    /\ upc = "key_lock"
    /\ writer_lock = "free"
    /\ writer_lock' = "ui"
    /\ upc' = "key_write"
    /\ UNCHANGED <<callVars, readerVars, taskVars, engineVars, cacheVars, viewVars,
                   eventVars, pending, npaints, nkeys, nresizes, seen, drain_mark,
                   oplog, keylog, sink_ok, wbuf, pty_in, sink_calls>>

\* What write_all and flush return: Ok(()) from a working sink, Err(_) from a
\* failing one.
WriteResults(ok, cs) == [i \in 1..Len(cs) |-> IF ok THEN "ok" ELSE "err"]

\* `let _ = writer.write_all(..); let _ = writer.flush();`: both results are
\* discarded and on_key_down returns.
UnwrapWriteResults(rs) ==
    IF \E i \in DOMAIN rs : rs[i] = "err" THEN "panicked" ELSE "idle"
DiscardWriteResults(rs) == "idle"

\* The rest of on_key_down: lock the writer, write_all, flush, both results
\* discarded; the writer guard is dropped at the end of the block.
KeyWrite ==
    /\ upc = "key_write"
    /\ LET cs == WriteAndFlush(pending)
           sk == SinkCalls([ok |-> sink_ok, wbuf |-> wbuf, pty_in |-> pty_in], cs)
       IN /\ sink_calls' = sink_calls \o cs
          /\ wbuf' = sk.wbuf
          /\ pty_in' = sk.pty_in
          /\ upc' = DiscardWriteResults(WriteResults(sink_ok, cs))
    /\ pending' = <<>>
    /\ writer_lock' = "free"
    /\ UNCHANGED <<callVars, readerVars, taskVars, engineVars, cacheVars, viewVars,
                   eventVars, npaints, nkeys, nresizes, seen, drain_mark,
                   oplog, keylog, sink_ok>>

\* The PTY sink starts to fail (the child has gone away).
SinkFail ==
    /\ sink_ok
    /\ sink_ok' = FALSE
    /\ UNCHANGED <<callVars, readerVars, taskVars, engineVars, cacheVars, viewVars,
                   eventVars, uiVars, wbuf, pty_in, sink_calls, writer_lock>>

\* ------------------------------------------------------ initial states

AllCallbacks == {"resize", "key", "bell", "title", "clipboard_store", "exit"}

\* TerminalConfig::default().scrollback.
DefaultScrollback == 10000

\* A TerminalConfig: grid size and scrollback lines.
ConfigWith(c, r, sb) == [cols |-> c, rows |-> r, scrollback |-> sb]
Config(c, r) == ConfigWith(c, r, DefaultScrollback)
\* TerminalConfig::default(): 80 x 24.
DefaultConfig == Config(80, 24)

Geom(w, h, pad, cw, ch) == [w |-> w, h |-> h, pad |-> pad, cw |-> cw, ch |-> ch]

\* The state TerminalView::new returns, for a configuration, a window
\* geometry and a set of installed callbacks.
ViewInit(configs, geoms, cbsets) ==
    /\ rpc = "run" /\ src_read = <<>> /\ bytes_q = <<>>
    /\ tpc = "recv" /\ cur = <<>> /\ idx = 0 /\ processed = <<>>
    /\ synth_exits = 0
    /\ config \in configs
    /\ term = TermNew(config.cols, config.rows)
    /\ parser = "ground" /\ term_lock = "free"
    /\ st_cols = config.cols /\ st_rows = config.rows
    /\ alive = TRUE
    /\ cbs \in cbsets
    /\ geom \in geoms
    /\ dirty = TRUE
    /\ event_q = <<>> /\ sent = <<>> /\ dispatched = <<>> /\ calls = <<>>
    /\ upc = "idle" /\ pending = <<>>
    /\ npaints = 0 /\ nkeys = 0 /\ nresizes = 0
    /\ seen = [by |-> "none", mid |-> FALSE, mode |-> {}, grid |-> <<>>]
    /\ drain_mark = 0
    /\ oplog = <<>> /\ keylog = <<>>
    /\ sink_ok = TRUE /\ wbuf = <<>> /\ pty_in = <<>> /\ sink_calls = <<>>
    /\ writer_lock = "free"

\* No call of a pure function is followed.
NoCall == [done |-> FALSE, val |-> <<>>]

InitWith(configs, geoms, cbsets) ==
    /\ ViewInit(configs, geoms, cbsets)
    /\ fin = <<>>
    /\ fout = NoCall

\* ------------------------------------------------------ specifications

\* The output pipeline: reader thread, cooperative task, frames, view drop.
Init == InitWith({DefaultConfig}, {Geom(400, 200, 0, 10, 20)}, {AllCallbacks, {}})

Next ==
    \/ ReaderRead(Chunks) \/ ReaderStop
    \/ TaskRecv \/ TaskAdvance \/ TaskClosed \/ TaskCancelled
    \/ Render \/ PaintClosure
    \/ DropView

Spec == Init /\ [][Next]_vars

\* The engine lock: byte processing against paint, resize and mode queries.
InitLock == InitWith({DefaultConfig}, {Geom(400, 200, 0, 10, 20)}, {AllCallbacks})

NextLock ==
    \/ ReaderRead({<<120, 27, 104>>}) \/ ReaderStop
    \/ TaskRecv \/ TaskAdvance \/ TaskClosed
    \/ Render \/ PaintClosure
    \/ PublicResize({[c |-> 120, r |-> 30]})
    \/ KeyDown({Keystroke("shift", FALSE, FALSE, TRUE, None)})

SpecLock == InitLock /\ [][NextLock]_vars

\* Key input against byte processing and a sink that may fail.
InitInput ==
    InitWith({DefaultConfig}, {Geom(800, 480, 0, 10, 20)}, {AllCallbacks, {}})

NextInput ==
    \/ ReaderRead(ModeChunks)
    \/ TaskRecv \/ TaskAdvance
    \/ KeyDown(Keystrokes) \/ KeyWrite
    \/ SinkFail

SpecInput == InitInput /\ [][NextInput]_vars

\* The resize loop: frames under changing bounds, padding and cell metrics,
\* and the public resize.
InitResize ==
    InitWith({DefaultConfig, Config(120, 40)},
             {Geom(b.w, b.h, m.pad, m.cw, m.ch) : b \in Bounds, m \in Metrics},
             {AllCallbacks, {}})

NextResize ==
    \/ Render \/ PaintClosure
    \/ PublicResize(ResizeArgs)
    \/ HostLayout \/ UpdateConfig

SpecResize == InitResize /\ [][NextResize]_vars

\* The session to its end, the view kept alive: the reader thread, the task
\* and the frames the host renders when the view has notified.  The reader
\* may block in read() for ever; the executor runs the task whenever it can
\* make progress and the host renders a notified view.
LiveChunks == { <<120, 7>>, <<27, 116>> }

InitLive == InitWith({DefaultConfig}, {Geom(400, 200, 0, 10, 20)}, {AllCallbacks, {}})

NextLive ==
    \/ ReaderRead(LiveChunks) \/ ReaderStop
    \/ TaskRecv \/ TaskAdvance \/ TaskClosed
    \/ Repaint \/ PaintClosure

SpecLive ==
    /\ InitLive
    /\ [][NextLive]_vars
    /\ WF_vars(TaskRecv)
    /\ WF_vars(TaskAdvance)
    /\ WF_vars(TaskClosed)
    /\ WF_vars(Repaint)
    /\ WF_vars(PaintClosure)

\* The event bridge alone: the engine raises events, the view may be dropped.
InitBridge == InitWith({DefaultConfig}, {Geom(400, 200, 0, 10, 20)}, {AllCallbacks})

NextBridge == SendEvent \/ DropView

SpecBridge == InitBridge /\ [][NextBridge]_vars

\* Construction with several configurations, then frames and a resize.
InitConfig ==
    InitWith({DefaultConfig, ConfigWith(80, 24, 5000), ConfigWith(120, 40, 0)},
             {Geom(800, 480, 0, 10, 20), Geom(800, 200, 0, 10, 20)},
             {AllCallbacks})

NextConfig ==
    \/ Render \/ PaintClosure
    \/ PublicResize({[c |-> 120, r |-> 30]})
    \/ HostLayout \/ UpdateConfig

SpecConfig == InitConfig /\ [][NextConfig]_vars

\* The keystroke encoder alone, over every call in EncoderCalls.
InitEncoder ==
    /\ ViewInit({DefaultConfig}, {Geom(800, 480, 0, 10, 20)}, {AllCallbacks})
    /\ fin \in EncoderCalls
    /\ fout = NoCall

NextEncoder == EncodeKey

SpecEncoder == InitEncoder /\ [][NextEncoder]_vars

\* The mouse encoders alone, over every call in MouseCalls.
InitMouse ==
    /\ ViewInit({DefaultConfig}, {Geom(800, 480, 0, 10, 20)}, {AllCallbacks})
    /\ fin \in MouseCalls \cup ScrollCalls
    /\ fout = NoCall

NextMouse == MouseButtonReport \/ ScrollReport

SpecMouse == InitMouse /\ [][NextMouse]_vars

\* The palette builder: ColorPalette::builder(), setters, build().
InitPalette ==
    /\ ViewInit({DefaultConfig}, {Geom(800, 480, 10, 20, 0)}, {AllCallbacks})
    /\ fin = [fn |-> "builder", rgb |-> Rgb(0, 0, 0), n |-> 0]
    /\ fout = [done |-> FALSE, val |-> DefaultPalette]

NextPalette ==
    AnsiSetter \/ BuilderBackground \/ BuilderForeground \/ BuilderCursor \/ BuilderBuild

SpecPalette == InitPalette /\ [][NextPalette]_vars

\* The renderer's pure parts: segment lookup and the painting of a row.
InitRender ==
    /\ ViewInit({DefaultConfig}, {Geom(800, 480, 10, 20, 0)}, {AllCallbacks})
    /\ fin \in BoxCalls \cup PaintCalls \cup LayoutCalls \cup MergeCalls
    /\ fout = NoCall

NextRender == GetBoxSegments \/ Paint \/ LayoutRow \/ MergeBackgrounds

SpecRender == InitRender /\ [][NextRender]_vars

\* Key handling at the grain of its locks, against byte processing, paint
\* and resize.
InitOrder == InitWith({DefaultConfig}, {Geom(400, 200, 0, 10, 20)}, {AllCallbacks})

NextOrder ==
    \/ ReaderRead({<<27, 104>>})
    \/ TaskRecv \/ TaskAdvance
    \/ KeyLockEngine({Keystroke("up", FALSE, FALSE, FALSE, None),
                      Keystroke("+", TRUE, FALSE, FALSE, None)})
    \/ KeyMode \/ KeyLockWriter \/ KeyWrite
    \/ Render \/ PaintClosure
    \/ PublicResize({[c |-> 120, r |-> 30]})

SpecOrder == InitOrder /\ [][NextOrder]_vars

\* ================================================================ claims

\* The engine after `bytes` have gone through a parser that started in the
\* ground state on a fresh engine.
RECURSIVE Fold(_, _, _, _)
Fold(t, p, evs, bytes) ==
    IF bytes = <<>> THEN [term |-> t, parser |-> p, events |-> evs]
    ELSE LET r == AdvanceByte(t, p, Head(bytes))
         IN Fold(r.term, r.parser, evs \o r.events, Tail(bytes))

AfterBytes(bytes) == Fold(TermNew(config.cols, config.rows), "ground", <<>>, bytes)

\* The bytes the parser has consumed so far.
Consumed ==
    IF tpc = "advance"
    THEN Flatten(SubSeq(processed, 1, Len(processed) - 1)) \o SubSeq(cur, 1, idx)
    ELSE Flatten(processed)

\* C1: the chunks passed to process_bytes, in call order, are at every moment
\* a prefix of the chunks the reader thread has read; while the view is alive
\* every chunk read is either already passed to process_bytes or still queued
\* in the byte channel, in the order read (nothing lost, duplicated or
\* reordered), and the call in progress works on the chunk passed last.
C1_BytesInOrder ==
    /\ IsPrefix(processed, src_read)
    /\ IsPrefix(Flatten(processed), Flatten(src_read))
    /\ alive => src_read = processed \o bytes_q
    /\ tpc = "advance" => cur = processed[Len(processed)]

\* C1 witness: two different chunks have been passed to process_bytes, the
\* view is alive and the second call is in progress.
C1_Witness ==
    /\ alive
    /\ Len(processed) = 2
    /\ processed[1] # processed[2]
    /\ tpc = "advance"

IsExit(ev) == ev.kind = "Exit"

\* C2: at most one synthetic Exit is enqueued; when it is, the reader has
\* stopped on EOF or error, the byte channel is empty, every chunk read has
\* been passed to process_bytes and that call has returned, the Exit is the
\* last event on the channel and the task has ended (so no process_bytes call
\* follows); and a task that has ended while the view is alive has enqueued
\* exactly one.
C2_ExitAfterAllChunks ==
    /\ synth_exits <= 1
    /\ Len(SelectSeq(sent, IsExit)) = synth_exits
    /\ synth_exits = 1 =>
          /\ tpc = "done"
          /\ rpc \in {"eof", "err"}
          /\ bytes_q = <<>>
          /\ processed = src_read
          /\ Consumed = Flatten(src_read)
          /\ IsExit(sent[Len(sent)])
    /\ (alive /\ tpc = "done") => synth_exits = 1

\* C2 witness: the reader stopped on a read error after two chunks, both were
\* processed, and the Exit is enqueued with the view alive.
C2_Witness ==
    /\ alive
    /\ rpc = "err"
    /\ Len(processed) = 2
    /\ synth_exits = 1

\* The callback the claim assigns to an event kind.
CallbackOf(kind) ==
    CASE kind = "Bell" -> "bell"
      [] kind = "Title" -> "title"
      [] kind = "ClipboardStore" -> "clipboard_store"
      [] kind = "Exit" -> "exit"
      [] OTHER -> "none"

HasCallback(ev) == CallbackOf(ev.kind) \in cbs

\* C3: the events received by process_events followed by those still queued
\* are exactly the events enqueued, in order (each dispatched at most once,
\* none lost); the events enqueued are the parser's events in program order
\* with the synthetic Exit after them; no event enqueued before a frame's
\* process_events began is left undrained by it; and the callbacks invoked
\* are, in order, those of the received Bell, Title, ClipboardStore and Exit
\* events that have a callback installed (none for Wakeup or ClipboardLoad).
C3_EventsInOrder ==
    /\ sent = dispatched \o event_q
    /\ sent = Bridge(AfterBytes(Consumed).events)
                \o (IF synth_exits = 1 THEN <<TermEvent("Exit", "")>> ELSE <<>>)
    /\ Len(dispatched) >= drain_mark
    /\ LET due == SelectSeq(dispatched, HasCallback)
       IN /\ Len(calls) = Len(due)
          /\ \A i \in DOMAIN calls :
                calls[i] = [cb |-> CallbackOf(due[i].kind), arg |-> due[i].data]

\* C3 witness: with every callback installed, a frame has drained several
\* events, among them one without a callback and, last, the synthetic Exit.
C3_Witness ==
    /\ cbs = AllCallbacks
    /\ Len(calls) >= 2
    /\ Len(dispatched) > Len(calls)
    /\ IsExit(dispatched[Len(dispatched)])
    /\ synth_exits = 1

\* C4: the engine lock is held by the task for as long as a process_bytes
\* call is running, and what paint, resize and mode() read from the engine is
\* never read between two bytes of a call: it is the engine's grid and mode
\* after a whole number of the chunks passed to process_bytes.
C4_ProcessBytesAtomic ==
    /\ tpc = "advance" => term_lock = "task"
    /\ ~seen.mid
    /\ seen.by # "none" =>
          \E k \in 0..Len(processed) :
             LET t == AfterBytes(Flatten(SubSeq(processed, 1, k))).term
             IN seen.grid = t.grid /\ seen.mode = t.mode

\* C4 witness: a frame's paint closure is due while a process_bytes call is
\* between two of its bytes, after an earlier critical section has read the
\* result of a complete call.
C4_Witness ==
    /\ MidCall
    /\ upc = "paint"
    /\ seen.grid # <<>>

\* The sink calls on_key_down makes for the encodings of a key log.
RECURSIVE SinkCallsFor(_)
SinkCallsFor(log) ==
    IF log = <<>> THEN <<>>
    ELSE (IF Head(log).out.some
          THEN << [call |-> "write_all", bytes |-> Head(log).out.bytes],
                  [call |-> "flush", bytes |-> <<>>] >>
          ELSE <<>>) \o SinkCallsFor(Tail(log))

\* The encodings of a key log, concatenated in event order.
RECURSIVE Encodings(_)
Encodings(log) ==
    IF log = <<>> THEN <<>>
    ELSE Head(log).out.bytes \o Encodings(Tail(log))

\* The key events whose on_key_down has returned.
Returned == IF upc = "key_write" THEN SubSeq(keylog, 1, Len(keylog) - 1) ELSE keylog

\* The program's state (everything but the history of key events).
programVars ==
    <<readerVars, taskVars, engineVars, cacheVars, viewVars, eventVars, sinkVars,
      upc, pending, seen, oplog>>

\* The key event of this step was consumed by the key handler.
ConsumedStep ==
    /\ Len(keylog') = Len(keylog) + 1
    /\ keylog'[Len(keylog')].consumed

\* What the claim says on_key_down does with each key event so far.
C6_KeyLog ==
    /\ \A i \in DOMAIN keylog :
          LET e == keylog[i]
              mode == AfterBytes(Flatten(SubSeq(processed, 1, e.nproc))).term.mode
          IN /\ e.consumed <=> ("key" \in cbs /\ KeyHandler(e.ks))
             /\ e.consumed => e.out = None
             /\ ~e.consumed => e.out = keystroke_to_bytes(e.ks, mode)
    /\ sink_calls = SinkCallsFor(Returned)
    /\ upc = "key_write" =>
          /\ keylog[Len(keylog)].out.some
          /\ pending = keylog[Len(keylog)].out.bytes

\* C6: a key event is consumed exactly when a key handler is set and returns
\* true, and then no sink call is made and nothing else changes; every other
\* key event is encoded with the engine mode after all the chunks processed
\* so far, and the sink receives write_all(bytes) then flush for each
\* encoding that is Some(bytes) and no call for one that is None.
C6_KeyDownContract ==
    /\ []C6_KeyLog
    /\ [][ConsumedStep => UNCHANGED programVars]_vars

\* C6 witness: one key event was consumed by the handler and the next, an Up
\* arrow pressed after the application switched on cursor-key mode, was
\* written to the sink in its application form.
C6_Witness ==
    /\ upc = "idle"
    /\ Len(keylog) = 2
    /\ keylog[1].consumed
    /\ "APP_CURSOR" \in term.mode
    /\ keylog[2].ks.key = "up"
    /\ pty_in = <<27, 79, 65>>

\* Every write_all the sink received is directly followed by a flush.
FlushedEachTime ==
    \A i \in DOMAIN sink_calls :
       sink_calls[i].call = "write_all" =>
          /\ i < Len(sink_calls)
          /\ sink_calls[i + 1].call = "flush"

\* C7: when on_key_down has returned, the bytes of every encoding so far have
\* been written and flushed: nothing is left in the writer's buffer, and a
\* working sink has received exactly the concatenation of the encodings in
\* event order; at every moment what the PTY has received is a prefix of that
\* concatenation.
C7_KeyBytesCommitted ==
    /\ upc = "idle" =>
          /\ FlushedEachTime
          /\ sink_calls = SinkCallsFor(keylog)
          /\ sink_ok => wbuf = <<>> /\ pty_in = Encodings(keylog)
    /\ IsPrefix(pty_in, Encodings(keylog))

\* C7 witness: two key events with different encodings have been handled one
\* after the other and the sink holds both, in order.
C7_Witness ==
    /\ upc = "idle"
    /\ sink_ok
    /\ Len(keylog) = 2
    /\ keylog[1].out.some /\ keylog[2].out.some
    /\ keylog[1].out.bytes # keylog[2].out.bytes
    /\ pty_in = keylog[1].out.bytes \o keylog[2].out.bytes

\* The grid size the claims give for a geometry: max(1, floor(available /
\* cell)) in each direction, the padding taken off both sides.
ClaimedDims(g) ==
    [c |-> Max(1, (g.w - 2 * g.pad) \div g.cw),
     r |-> Max(1, (g.h - 2 * g.pad) \div g.ch)]

EngineDims(t) == [c |-> t.columns, r |-> t.screen_lines]

ConfiguredDims == [c |-> config.cols, r |-> config.rows]

\* The step of a frame's paint closure.
PaintStep == upc = "paint" /\ upc' = "idle"

OpAt(i) == IF i \in DOMAIN oplog THEN oplog[i].op ELSE "none"

PaintAt(i) == OpAt(i) = "paint"

\* One paint's resize loop as the claim describes it: the callback, if one is
\* installed, exactly when the computed size differs from the engine's, once,
\* with the computed size, directly before the engine's resize; no callback
\* and no resize otherwise; the engine at the computed size afterwards.
ResizeLoopEffect ==
    LET d      == ClaimedDims(geom)
        differ == d # EngineDims(term)
        loop   == IF ~differ THEN <<>>
                  ELSE IF "resize" \in cbs
                       THEN <<Op("resize_callback", d.c, d.r), Op("term_resize", d.c, d.r)>>
                       ELSE <<Op("term_resize", d.c, d.r)>>
    IN /\ oplog' = oplog \o <<Op("paint", d.c, d.r)>> \o loop
       /\ EngineDims(term') = d

\* Two paints, one directly after the other (no TerminalView::resize and no
\* other paint between them), that computed the same size: the later one
\* invokes no callback.
RepeatedPaintsQuiet ==
    \A i, j \in DOMAIN oplog :
       ( /\ i < j /\ PaintAt(i) /\ PaintAt(j)
         /\ oplog[i].c = oplog[j].c /\ oplog[i].r = oplog[j].r
         /\ \A k \in (i + 1)..(j - 1) : OpAt(k) \notin {"paint", "state_resize"} )
       => OpAt(j + 1) # "resize_callback"

C8_CachedDimsCurrent ==
    /\ st_cols = term.columns
    /\ st_rows = term.screen_lines

\* C9 as claimed: every resize request that has reached the engine, from the
\* paint closure or from the public resize, has cols >= 1 and rows >= 1, and
\* the engine's columns and screen_lines are at least 1.
C9_NoZeroDims ==
    /\ \A i \in DOMAIN oplog :
          oplog[i].op = "term_resize" => oplog[i].c >= 1 /\ oplog[i].r >= 1
    /\ term.columns >= 1
    /\ term.screen_lines >= 1

\* The first paint after construction, when no TerminalView::resize came
\* before it.
FirstPaintDone == oplog # <<>> /\ PaintAt(1)

\* C10 as claimed: the first paint invokes the resize callback with the
\* computed (cols, rows), before the engine's resize, whatever the configured
\* initial cols/rows.
C10_CallbackOnFirstPaint ==
    (FirstPaintDone /\ "resize" \in cbs) =>
        /\ OpAt(2) = "resize_callback"
        /\ oplog[2] = Op("resize_callback", oplog[1].c, oplog[1].r)
        /\ OpAt(3) = "term_resize"

\* The step of the first frame's paint closure.
FirstPaintStep == PaintStep /\ npaints = 1

\* The example of the claim: bounds 800x480, cell 10x20, no padding.
ExampleGeom == Geom(800, 480, 0, 10, 20)

\* C10, amended: the first paint invokes the resize callback, with the
\* (cols, rows) computed from the bounds and before the engine's resize,
\* exactly when (cols, rows) differs from the engine's current size, which is
\* the configured one unless TerminalView::resize was called before; when the
\* two are equal it invokes no callback and resizes nothing. Either way the
\* engine has the computed size after that paint. Bounds 800x480, cell 10x20
\* and no padding give resize_callback(80, 24) for a configured size other
\* than 80x24 and no callback for the default 80x24.
C10_FirstPaint ==
    [][FirstPaintStep =>
         LET d == ClaimedDims(geom)
             n == Len(oplog)
         IN /\ nresizes = 0 => EngineDims(term) = ConfiguredDims
            /\ EngineDims(term') = d
            /\ Len(oplog') > n /\ oplog'[n + 1] = Op("paint", d.c, d.r)
            /\ IF d # EngineDims(term)
               THEN LET k == IF "resize" \in cbs THEN n + 3 ELSE n + 2
                    IN /\ Len(oplog') = k
                       /\ oplog'[k] = Op("term_resize", d.c, d.r)
                       /\ "resize" \in cbs =>
                             oplog'[n + 2] = Op("resize_callback", d.c, d.r)
               ELSE Len(oplog') = n + 1
            /\ (geom = ExampleGeom /\ nresizes = 0 /\ "resize" \in cbs) =>
                  /\ d = [c |-> 80, r |-> 24]
                  /\ (ConfiguredDims # d) <=>
                        (Len(oplog') = 3 /\ oplog'[2] = Op("resize_callback", 80, 24))]_vars

\* C10 witness: configured 120x40, the first paint at the example geometry
\* invoked resize_callback(80, 24) and then resized the engine to 80x24.
C10_Witness ==
    /\ ConfiguredDims = [c |-> 120, r |-> 40]
    /\ geom = ExampleGeom
    /\ oplog = << Op("paint", 80, 24), Op("resize_callback", 80, 24),
                  Op("term_resize", 80, 24) >>
    /\ EngineDims(term) = [c |-> 80, r |-> 24]

IsExitCall(c) == c.cb = "exit"

\* C11: once the reader has stopped on EOF or on a read error, with the view
\* alive and an exit callback installed, the task eventually has passed every
\* chunk read to process_bytes and ended, and the exit callback eventually is
\* invoked.
C11_ExitDelivered ==
    (rpc \in {"eof", "err"} /\ "exit" \in cbs)
        ~> ( /\ processed = src_read
             /\ tpc = "done"
             /\ SelectSeq(calls, IsExitCall) # <<>> )

\* C11 witness: the source failed after two chunks; both were processed and
\* the exit callback has been invoked.
C11_Witness ==
    /\ rpc = "err"
    /\ Len(src_read) = 2
    /\ processed = src_read
    /\ SelectSeq(calls, IsExitCall) # <<>>

\* The step in which on_key_down writes to a sink that fails.
FailedWriteStep == upc = "key_write" /\ upc' # "key_write" /\ ~sink_ok

\* C12: when write_all and flush fail, on_key_down still makes both calls and
\* returns normally; that step enqueues no event and leaves the engine (grid,
\* mode, dimensions) and the cached dimensions unchanged; and every key event
\* handled afterwards is still encoded and its write_all and flush attempted.
C12_FailingSinkSilent ==
    /\ [][FailedWriteStep =>
            /\ upc' = "idle"
            /\ sink_calls' = sink_calls \o
                  << [call |-> "write_all", bytes |-> pending],
                     [call |-> "flush", bytes |-> <<>>] >>
            /\ UNCHANGED <<eventVars, engineVars, cacheVars>>]_vars
    /\ [](upc \in {"idle", "key_write"})
    /\ [](sink_calls = SinkCallsFor(Returned))
    /\ [](SelectSeq(sent, IsExit) = <<>>)

\* C12 witness: the sink failed after the first of two key events; the second
\* was encoded and its write attempted, and the PTY holds the first only.
C12_Witness ==
    /\ ~sink_ok
    /\ upc = "idle"
    /\ Len(keylog) = 2
    /\ keylog[1].out.some /\ keylog[2].out.some
    /\ Len(sink_calls) = 4
    /\ pty_in = keylog[1].out.bytes

\* The TerminalEvent the claim gives for each engine event.
ClaimedEvent(ev) ==
    CASE ev.kind = "Wakeup" -> <<TermEvent("Wakeup", "")>>
      [] ev.kind = "Bell" -> <<TermEvent("Bell", "")>>
      [] ev.kind = "Title" -> <<TermEvent("Title", ev.data)>>
      [] ev.kind = "ResetTitle" -> <<TermEvent("Title", "")>>
      [] ev.kind = "ClipboardStore" -> <<TermEvent("ClipboardStore", ev.data)>>
      [] ev.kind = "ClipboardLoad" -> <<TermEvent("ClipboardLoad", "")>>
      [] ev.kind \in {"Exit", "ChildExit"} -> <<TermEvent("Exit", "")>>
      [] ev.kind \in {"MouseCursorDirty", "PtyWrite", "ColorRequest",
                      "TextAreaSizeRequest", "CursorBlinkingChange"} -> <<>>

\* What the channel holds after the send_event calls of a log: the claimed
\* event of each call made while the receiver existed, in call order.
RECURSIVE ClaimedQueue(_)
ClaimedQueue(log) ==
    IF log = <<>> THEN <<>>
    ELSE (IF Head(log).rx THEN ClaimedEvent(Head(log).ev) ELSE <<>>)
         \o ClaimedQueue(Tail(log))

\* C13: send_event maps every engine event to the one TerminalEvent the claim
\* lists, or to none; the channel holds exactly the mapped events of the
\* calls made while the receiver was alive, once each and in call order, and
\* a call made after the receiver was dropped changes nothing.
C13_EventMapping ==
    /\ \A ev \in EngineEvents : send_event(ev) = ClaimedEvent(ev)
    /\ sent = ClaimedQueue(fin)
    /\ event_q = sent

\* C13 witness: a title reset and a child exit were bridged, then the receiver
\* was dropped.
C13_Witness ==
    /\ Len(fin) = 2
    /\ fin[1].ev.kind = "ResetTitle" /\ fin[1].rx
    /\ fin[2].ev.kind = "ChildExit" /\ fin[2].rx
    /\ sent = <<TermEvent("Title", ""), TermEvent("Exit", "")>>
    /\ ~alive

\* C14 as claimed: the engine's scrollback history is the scrollback value of
\* the configuration the view was constructed with.
C14_ScrollbackConfigured == term.history = config.scrollback

\* The call of keystroke_to_bytes has returned.
Encoded == fout.done /\ fin \in EncoderCalls

ArrowLetter(key) ==
    CASE key = "up" -> 65 [] key = "down" -> 66 [] key = "right" -> 67
      [] key = "left" -> 68

\* C15: for up, down, right and left the encoder returns ESC [ A/B/C/D when
\* the mode has no APP_CURSOR and ESC O A/B/C/D when it has, whatever the
\* other mode bits, the modifiers and key_char.
C15_ArrowKeys ==
    (Encoded /\ fin.ks.key \in {"up", "down", "right", "left"}) =>
        fout.val = Some(<<27, IF "APP_CURSOR" \in fin.mode THEN 79 ELSE 91,
                          ArrowLetter(fin.ks.key)>>)

\* C15 witness: Left with every modifier held, in APP_CURSOR mode with
\* another mode bit set, gave ESC O D; the same without APP_CURSOR is covered
\* by the runs of the other modes.
C15_Witness ==
    /\ Encoded
    /\ fin.ks.key = "left"
    /\ fin.ks.control /\ fin.ks.alt /\ fin.ks.shift
    /\ fin.mode = {"APP_CURSOR", "ALT_SCREEN"}
    /\ fout.val = Some(<<27, 79, 68>>)

\* The fixed sequences the claim lists.
ClaimedFixed(key) ==
    CASE key = "enter" -> <<13>>
      [] key = "escape" -> <<27>>
      [] key = "backspace" -> <<127>>
      [] key = "home" -> <<27, 91, 72>>
      [] key = "end" -> <<27, 91, 70>>
      [] key = "pageup" -> <<27, 91, 53, 126>>
      [] key = "pagedown" -> <<27, 91, 54, 126>>
      [] key = "insert" -> <<27, 91, 50, 126>>
      [] key = "delete" -> <<27, 91, 51, 126>>
      [] key = "f1" -> <<27, 79, 80>>
      [] key = "f2" -> <<27, 79, 81>>
      [] key = "f3" -> <<27, 79, 82>>
      [] key = "f4" -> <<27, 79, 83>>
      [] key = "f5" -> <<27, 91, 49, 53, 126>>
      [] key = "f6" -> <<27, 91, 49, 55, 126>>
      [] key = "f7" -> <<27, 91, 49, 56, 126>>
      [] key = "f8" -> <<27, 91, 49, 57, 126>>
      [] key = "f9" -> <<27, 91, 50, 48, 126>>
      [] key = "f10" -> <<27, 91, 50, 49, 126>>
      [] key = "f11" -> <<27, 91, 50, 51, 126>>
      [] key = "f12" -> <<27, 91, 50, 52, 126>>

FixedKeys ==
    { "enter", "escape", "backspace", "home", "end", "pageup", "pagedown",
      "insert", "delete", "f1", "f2", "f3", "f4", "f5", "f6", "f7", "f8",
      "f9", "f10", "f11", "f12" }

\* C16: enter, escape, backspace, home, end, pageup, pagedown, insert, delete
\* and f1..f12 give their fixed sequence for every mode, every combination of
\* ctrl, alt and shift and whatever key_char is; tab gives ESC [ Z exactly
\* when shift is held and \t otherwise.
C16_NamedKeysFirst ==
    /\ (Encoded /\ fin.ks.key \in FixedKeys) =>
          fout.val = Some(ClaimedFixed(fin.ks.key))
    /\ (Encoded /\ fin.ks.key = "tab") =>
          fout.val = Some(IF fin.ks.shift THEN <<27, 91, 90>> ELSE <<9>>)

\* C16 witness: Enter typed with no modifier (key_char present) gave \r, not
\* the typed character.
C16_Witness ==
    /\ Encoded
    /\ fin.ks.key = "enter"
    /\ fin.ks.key_char.some
    /\ ~fin.ks.control /\ ~fin.ks.alt
    /\ fout.val = Some(<<13>>)

\* The control byte the claim gives for a letter: its position in the
\* alphabet, the same for both cases.
ClaimedCtrlLetter(key) ==
    CASE key \in {"a", "A"} -> 1
      [] key \in {"c", "C"} -> 3
      [] key = "x" -> 24
      [] key = "z" -> 26

ClaimedCtrlSpecial(key) ==
    CASE key = "[" -> 27 [] key = "\\" -> 28 [] key = "]" -> 29
      [] key = "^" -> 30 [] key = "_" -> 31 [] key = "?" -> 127

\* C17: with Ctrl held a single ASCII letter gives the one byte
\* uppercase(letter) - 0x40, in 0x01..0x1A and the same for both cases; the
\* keys [ \ ] ^ _ ? give 0x1b, 0x1c, 0x1d, 0x1e, 0x1f, 0x7f; Ctrl+Space gives
\* 0x00.
C17_CtrlCombinations ==
    (Encoded /\ fin.ks.control) =>
        /\ fin.ks.key \in {"a", "A", "c", "C", "x", "z"} =>
              fout.val = Some(<<ClaimedCtrlLetter(fin.ks.key)>>)
        /\ fin.ks.key \in {"[", "\\", "]", "^", "_", "?"} =>
              fout.val = Some(<<ClaimedCtrlSpecial(fin.ks.key)>>)
        /\ fin.ks.key = "space" => fout.val = Some(<<0>>)

\* C17 witness: Ctrl with a lower-case c gave 0x03.
C17_Witness ==
    /\ Encoded
    /\ fin.ks.control /\ ~fin.ks.alt /\ ~fin.ks.shift
    /\ fin.ks.key = "c"
    /\ fout.val = Some(<<3>>)

\* The Ctrl rule returns for this key: a letter or one of [ \ ] ^ _ ?.
CtrlRuleKey(key) ==
    key \in {"a", "A", "c", "C", "x", "z", "[", "\\", "]", "^", "_", "?"}

\* C18 as claimed: with Alt held, a single ASCII character that is not a
\* named key gives ESC and the character's byte, for every mode and whatever
\* Shift and Ctrl are.
C18_AltAlwaysEsc ==
    (Encoded /\ fin.ks.alt /\ fin.ks.key \in AsciiKeys) =>
        fout.val = Some(<<27, KeyUtf8(fin.ks.key)[1]>>)

\* C18, amended: with Alt held, a single ASCII character that is not a named
\* key gives ESC and the character's byte for every mode and whatever Shift
\* is, unless Ctrl is held and the key is a letter or one of [ \ ] ^ _ ?: then
\* the Ctrl rule comes first and the result is its single control byte.
C18_AltUnlessCtrlRule ==
    (Encoded /\ fin.ks.alt /\ fin.ks.key \in AsciiKeys) =>
        IF fin.ks.control /\ CtrlRuleKey(fin.ks.key)
        THEN fout.val = Some(<<IF fin.ks.key \in {"a", "A", "c", "C", "x", "z"}
                               THEN ClaimedCtrlLetter(fin.ks.key)
                               ELSE ClaimedCtrlSpecial(fin.ks.key)>>)
        ELSE fout.val = Some(<<27, KeyUtf8(fin.ks.key)[1]>>)

\* C18 witness: Alt+Shift+x gave ESC x, and so did not upper-case the key.
C18_Witness ==
    /\ Encoded
    /\ fin.ks.alt /\ fin.ks.shift /\ ~fin.ks.control
    /\ fin.ks.key = "x"
    /\ fout.val = Some(<<27, 120>>)

\* C19 as claimed: with neither Ctrl nor Alt, a single printable character
\* that is not a named key gives Some: key_char as typed when present,
\* otherwise the key itself, upper-cased under Shift for ASCII and UTF-8
\* encoded for a non-ASCII character.
C19_PrintableCharacters ==
    (Encoded /\ ~fin.ks.control /\ ~fin.ks.alt
             /\ fin.ks.key \in AsciiKeys \cup {"e-acute"}) =>
        fout.val =
            IF fin.ks.key_char.some THEN Some(fin.ks.key_char.bytes)
            ELSE IF fin.ks.key \in AsciiKeys
                 THEN Some(<<IF fin.ks.shift
                             THEN to_ascii_uppercase(KeyUtf8(fin.ks.key)[1])
                             ELSE KeyUtf8(fin.ks.key)[1]>>)
            ELSE Some(KeyUtf8(fin.ks.key))

\* The call of mouse_button_report has returned.
ButtonReported == fout.done /\ fin.fn = "mouse_button_report"

\* A number of at most three digits in decimal, as the report carries it.
ClaimedDecimal(n) ==
    LET m == IF n < 0 THEN 0 - n ELSE n
        d == IF m < 10 THEN <<48 + m>>
             ELSE IF m < 100 THEN <<48 + (m \div 10), 48 + (m % 10)>>
             ELSE <<48 + (m \div 100), 48 + ((m \div 10) % 10), 48 + (m % 10)>>
    IN IF n < 0 THEN <<45>> \o d ELSE d

ClaimedButtonCode(button) ==
    CASE button = "Left" -> 0 [] button = "Middle" -> 1 [] button = "Right" -> 2

\* C20: mouse_button_report returns None when the mode has none of
\* MOUSE_REPORT_CLICK, MOUSE_MOTION, MOUSE_DRAG or the button is not Left,
\* Middle or Right; otherwise exactly ESC [ < B ; C ; R X with B the button
\* code (0, 1, 2) OR-ed with the modifier bits (their sum when the modifiers
\* are the shift/alt/ctrl bits 4, 8, 16), C = column + 1, R = line + 1 and X
\* 'M' for a press, 'm' for a release.
C20_MouseButtonReport ==
    ButtonReported =>
        IF \/ fin.mode \cap {"MOUSE_REPORT_CLICK", "MOUSE_MOTION", "MOUSE_DRAG"} = {}
           \/ fin.button \notin {"Left", "Middle", "Right"}
        THEN fout.val = None
        ELSE LET code == ClaimedButtonCode(fin.button)
                 B    == IF fin.modifiers % 4 = 0 THEN code + fin.modifiers
                         ELSE BitOr(code, fin.modifiers)
             IN fout.val =
                   Some(<<27, 91, 60>> \o ClaimedDecimal(B) \o <<59>>
                        \o ClaimedDecimal(fin.point.column + 1) \o <<59>>
                        \o ClaimedDecimal(fin.point.line + 1)
                        \o <<IF fin.pressed THEN 77 ELSE 109>>)

\* C20 witness: a left press at line 5, column 10 with Shift, Alt and Ctrl
\* held, in click-reporting mode, gave ESC [ < 28 ; 11 ; 6 M.
C20_Witness ==
    /\ ButtonReported
    /\ fin.button = "Left" /\ fin.pressed
    /\ fin.point = [line |-> 5, column |-> 10]
    /\ fin.modifiers = 28
    /\ fin.mode = {"MOUSE_REPORT_CLICK"}
    /\ fout.val = Some(<<27, 91, 60, 50, 56, 59, 49, 49, 59, 54, 77>>)

\* The call of scroll_report has returned or panicked.
Scrolled == fout.done /\ fin.fn = "scroll_report"

MouseModeOn(mode) == mode \cap {"MOUSE_REPORT_CLICK", "MOUSE_MOTION", "MOUSE_DRAG"} # {}

\* The SGR wheel event with button code `code` for the call in fin.
WheelEvent(code) ==
    Some(<<27, 91, 60>> \o ClaimedDecimal(code + fin.modifiers) \o <<59>>
         \o ClaimedDecimal(fin.point.column + 1) \o <<59>>
         \o ClaimedDecimal(fin.point.line + 1) \o <<77>>)

\* C21 as claimed: with a mouse mode set (with or without ALT_SCREEN)
\* scroll_report returns one SGR press event whose button is 64 only when
\* delta > 0 and 65 only when delta < 0; else with ALT_SCREEN set it returns
\* arrow-key sequences (some bytes, not None); else it returns None.
C21_ScrollPriority ==
    Scrolled =>
        IF MouseModeOn(fin.mode)
        THEN /\ fout.val \in {WheelEvent(64), WheelEvent(65)}
             /\ fout.val = WheelEvent(64) => fin.delta > 0
             /\ fout.val = WheelEvent(65) => fin.delta < 0
        ELSE IF "ALT_SCREEN" \in fin.mode
        THEN fin.delta \in {0 - 2, 3} => fout.val.some
        ELSE fout.val = None

RECURSIVE ClaimedRepeat(_, _)
ClaimedRepeat(seq, n) == IF n <= 0 THEN <<>> ELSE ClaimedRepeat(seq, n - 1) \o seq

\* |delta| capped at five, computed without leaving the integers at hand.
ClaimedCount(delta) ==
    IF delta >= 5 \/ delta <= 0 - 5 THEN 5
    ELSE IF delta < 0 THEN 0 - delta ELSE delta

\* C22 as claimed: with ALT_SCREEN set and no mouse mode, for every i32 delta
\* (0 and i32::MIN included) scroll_report returns, without panic, exactly
\* min(|delta|, 5) repetitions of arrow-up (delta > 0) or arrow-down
\* (delta < 0), as ESC O A/B with APP_CURSOR and ESC [ A/B without.
C22_ScrollArrows ==
    (Scrolled /\ ~MouseModeOn(fin.mode) /\ "ALT_SCREEN" \in fin.mode) =>
        LET mid == IF "APP_CURSOR" \in fin.mode THEN 79 ELSE 91
            seq == <<27, mid, IF fin.delta > 0 THEN 65 ELSE 66>>
        IN fout.val = Some(ClaimedRepeat(seq, ClaimedCount(fin.delta)))

\* The 6x6x6 cube of the levels 0, 95, 135, 175, 215, 255 at 16..231 and the
\* grayscale ramp 8 + 10i at 232..255.
ClaimedCubeAndRamp ==
    LET level == <<0, 95, 135, 175, 215, 255>>
        cube == { <<r, g, b>> : r \in 0..5, g \in 0..5, b \in 0..5 }
        at(i) == CHOOSE c \in cube : 16 + 36 * c[1] + 6 * c[2] + c[3] = i
    IN [i \in 16..255 |->
          IF i < 232
          THEN rgb_to_hsla(Rgb(level[at(i)[1] + 1], level[at(i)[2] + 1], level[at(i)[3] + 1]))
          ELSE rgb_to_hsla(Rgb(8 + 10 * (i - 232), 8 + 10 * (i - 232), 8 + 10 * (i - 232)))]

\* extended[0..16] mirrors ansi, and extended[16..256] is the cube and the ramp.
PaletteShape ==
    LET p == fout.val
    IN /\ \A i \in 0..15 : p.extended_colors[i] = p.ansi_colors[i]
       /\ \A i \in 16..255 : p.extended_colors[i] = ClaimedCubeAndRamp[i]

\* The index of the ANSI setter `name`, or -1 for any other call.
SetterIndex(name) ==
    IF \E k \in 1..16 : AnsiSetters[k] = name
    THEN (CHOOSE k \in 1..16 : AnsiSetters[k] = name) - 1
    ELSE 0 - 1

\* What the call recorded in fin' may have changed in the palette.
SetterFrame ==
    LET p == fout.val
        q == fout'.val
        own == SetterIndex(fin'.fn)
    IN /\ IF own >= 0
          THEN /\ q.ansi_colors = [p.ansi_colors EXCEPT ![own] = q.ansi_colors[own]]
               /\ q.extended_colors
                    = [p.extended_colors EXCEPT ![own] = q.extended_colors[own]]
          ELSE /\ q.ansi_colors = p.ansi_colors
               /\ q.extended_colors = p.extended_colors
       /\ fin'.fn # "background" => q.background = p.background
       /\ fin'.fn # "foreground" => q.foreground = p.foreground
       /\ fin'.fn # "cursor" => q.cursor = p.cursor

\* C23: for every palette built from the default by builder calls,
\* extended[i] = ansi[i] for i < 16; an ANSI setter changes only ansi[idx] and
\* extended[idx] of its own index, the background, foreground and cursor
\* setters change only their own field, and extended[16..256] stays the
\* 6x6x6 cube of levels 0, 95, 135, 175, 215, 255 and the grayscale 8 + 10i.
C23_PaletteInvariant == [](PaletteShape) /\ [][SetterFrame]_vars

\* A built palette whose red and background were set to non-default colours.
C23_Witness ==
    /\ fout.done /\ fin.fn = "build"
    /\ fout.val.ansi_colors[1] # DefaultPalette.ansi_colors[1]
    /\ fout.val.extended_colors[1] = fout.val.ansi_colors[1]
    /\ fout.val.background # DefaultPalette.background

\* The three diagonals U+2571, U+2572, U+2573.
Diagonals == {9585, 9586, 9587}

\* C24: for every character of U+2500..U+257F except the three diagonals
\* get_box_segments returns a descriptor with at least one of top, bottom,
\* left, right present; for the diagonals and for every character outside
\* the block it returns None.
C24_BoxSegmentsTotal ==
    (fout.done /\ fin.fn = "get_box_segments") =>
        IF fin.ch \in (9472..9599) \ Diagonals
        THEN /\ fout.val.some
             /\ \/ fout.val.top # "None"
                \/ fout.val.bottom # "None"
                \/ fout.val.left # "None"
                \/ fout.val.right # "None"
        ELSE fout.val = NoSegments

\* The last character of the block, U+257F, was looked up and has its
\* heavy-up light-down descriptor.
C24_Witness ==
    /\ fout.done /\ fin.fn = "get_box_segments" /\ fin.ch = 9599
    /\ fout.val = BoxSegmentsNew("Heavy", "Light", "None", "None")

\* A row has been painted.
Painted == fout.done /\ fin.fn = "paint"

\* The calls of a row's painting with the given name.
OpsOf(name) == { k \in 1..Len(fout.val) : fout.val[k].op = name }

\* Column col (0-based) of the painted row.
CellAt(col) == fin.cells[col + 1]
Columns == 0 .. (Len(fin.cells) - 1)
NonBlank(col) == CellAt(col).c # 32 /\ CellAt(col).c # 0

\* Some call of the box-drawing passes put ink on column col.
BoxPainted(col) ==
    \/ \E k \in OpsOf("draw_horizontal_span") :
          col \in fout.val[k].start_col .. fout.val[k].end_col
    \/ \E k \in OpsOf("draw_vertical_components") \cup OpsOf("draw_box_character") :
          fout.val[k].col = col /\ fout.val[k].drawn

TextPainted(col) == \E k \in OpsOf("shape_line") : fout.val[k].col = col

\* C25 as claimed: a cell whose character has no segment descriptor (a
\* diagonal in particular) is painted by the text pass, and every non-blank
\* cell is painted by exactly one of the box-drawing pass and the text pass.
C25_EveryCellPainted ==
    Painted =>
        \A col \in Columns :
            NonBlank(col) =>
                /\ ~get_box_segments(CellAt(col).c).some => TextPainted(col)
                /\ BoxPainted(col) # TextPainted(col)

\* The horizontal weight as the claim reads it: both sides present and equal.
ClaimedWeight(col) ==
    LET seg == get_box_segments(CellAt(col).c)
    IN IF seg.some /\ seg.left # "None" /\ seg.left = seg.right THEN seg.left ELSE "None"

\* Columns a and a + 1 belong to the same run.
SameRun(a) ==
    /\ a + 1 \in Columns
    /\ ClaimedWeight(a) # "None"
    /\ ClaimedWeight(a + 1) = ClaimedWeight(a)
    /\ resolve(CellAt(a + 1).fg) = resolve(CellAt(a).fg)

\* The maximal runs of the row, as pairs <<start_col, end_col>>.
ClaimedRuns ==
    { <<a, b>> \in Columns \X Columns :
        /\ a <= b
        /\ ClaimedWeight(a) # "None"
        /\ \A c \in a .. (b - 1) : SameRun(c)
        /\ (a = 0 \/ ~SameRun(a - 1))
        /\ ~SameRun(b) }

\* C26: pass A issues exactly one horizontal-span call per maximal run of
\* adjacent cells of one horizontal weight and one resolved foreground
\* colour, from left to right; in pass B a box-drawing cell inside a run gets
\* only its vertical components and no full-character draw, and a
\* box-drawing cell outside all runs gets one full-character draw.
C26_SpanBatching ==
    Painted =>
        LET spans == OpsOf("draw_horizontal_span")
            inRun(col) == \E r \in ClaimedRuns : col \in r[1] .. r[2]
            callsAt(name, col) == { k \in OpsOf(name) : fout.val[k].col = col }
        IN /\ { <<fout.val[k].start_col, fout.val[k].end_col>> : k \in spans } = ClaimedRuns
           /\ Cardinality(spans) = Cardinality(ClaimedRuns)
           /\ \A k \in spans : fout.val[k].weight = ClaimedWeight(fout.val[k].start_col)
           /\ \A j, k \in spans : j < k => fout.val[j].end_col < fout.val[k].start_col
           /\ \A col \in Columns :
                (NonBlank(col) /\ CellAt(col).c \in 9472..9599) =>
                    IF inRun(col)
                    THEN /\ Cardinality(callsAt("draw_vertical_components", col)) = 1
                         /\ callsAt("draw_box_character", col) = {}
                    ELSE /\ Cardinality(callsAt("draw_box_character", col)) = 1
                         /\ callsAt("draw_vertical_components", col) = {}

\* The row of ten cells with five U+2500 in columns 2..6: one span call over
\* those columns and no full-character draw.
C26_Witness ==
    /\ Painted /\ Len(fin.cells) = 10
    /\ Cardinality(OpsOf("draw_horizontal_span")) = 1
    /\ \E k \in OpsOf("draw_horizontal_span") :
          fout.val[k].start_col = 2 /\ fout.val[k].end_col = 6
    /\ OpsOf("draw_box_character") = {}

\* C27 as claimed: the span of a run start_col..=end_col is one continuous
\* line at the row's vertical centre from origin.x + cell_width * start_col - 1
\* to origin.x + cell_width * (end_col + 1) + 1.
C27_SpanOverlap ==
    Painted =>
        \A k \in OpsOf("draw_horizontal_span") :
            LET span == fout.val[k]
            IN /\ Len(span.lines) = 1
               /\ span.lines[1].y = span.cy
               /\ span.lines[1].from_x
                    = PaintGeom.origin_x + PaintGeom.cell_width * span.start_col - 1
               /\ span.lines[1].to_x
                    = PaintGeom.origin_x + PaintGeom.cell_width * (span.end_col + 1) + 1

\* layout_row has returned.
LaidOut == fout.done /\ fin.fn = "layout_row"

\* The cell of the row at column col, if the row has that column.
HasColumn(col) == \E i \in 1..Len(fin.cells) : fin.cells[i][1] = col
CellOf(col) == fin.cells[CHOOSE i \in 1..Len(fin.cells) : fin.cells[i][1] = col][2]

\* The k-th character of run r is the cell at column start_col + k - 1, a
\* cell that is no spacer and has the run's style.
RunCoversCell(r, k) ==
    LET col == r.start_col + k - 1
    IN /\ HasColumn(col)
       /\ "WIDE_CHAR_SPACER" \notin CellOf(col).flags
       /\ r.text[k] = (IF CellOf(col).c = 0 THEN 32 ELSE CellOf(col).c)
       /\ r.fg_color = resolve(CellOf(col).fg)
       /\ r.bg_color = resolve(CellOf(col).bg)
       /\ r.bold = ("BOLD" \in CellOf(col).flags)
       /\ r.italic = ("ITALIC" \in CellOf(col).flags)
       /\ r.underline = ("UNDERLINE" \in CellOf(col).flags)

\* C28 as claimed: every text run of layout_row covers the contiguous columns
\* start_col .. start_col + (characters of text) of its row and all its
\* cells share fg, bg, bold, italic and underline; a run is flushed when the
\* next cell is not contiguous, also after a skipped wide-character spacer.
C28_RunsContiguous ==
    LaidOut =>
        \A n \in 1..Len(fout.val.text_runs) :
            LET r == fout.val.text_runs[n]
            IN /\ r.row = fin.row
               /\ \A k \in 1..Len(r.text) : RunCoversCell(r, k)

\* merge_backgrounds has returned.
Merged == fout.done /\ fin.fn = "merge_backgrounds"

\* The cells a list of rectangles covers, with their colours.
Covered(rects) ==
    UNION { { <<rects[k].row, col, rects[k].color>> :
                col \in rects[k].start_col .. (rects[k].end_col - 1) } : k \in 1..Len(rects) }

\* Mergeable as specified: same row, same colour, end_col = other.start_col.
ClaimedMergeable(a, b) == a.row = b.row /\ a.color = b.color /\ a.end_col = b.start_col

RECURSIVE StartsInOrder(_, _)
\* Every rectangle of out starts where some rectangle of inp starts, in the
\* same order.
StartsInOrder(out, inp) ==
    IF out = <<>> THEN TRUE
    ELSE IF inp = <<>> THEN FALSE
    ELSE IF /\ Head(out).start_col = Head(inp).start_col
            /\ Head(out).row = Head(inp).row
            /\ Head(out).color = Head(inp).color
    THEN StartsInOrder(Tail(out), Tail(inp))
    ELSE StartsInOrder(out, Tail(inp))

\* C29: merge_backgrounds is idempotent, merging a merged prefix with the
\* rest equals merging the whole list, the output keeps the input order,
\* covers the same columns with the same colours, and no two consecutive
\* rectangles of it are mergeable.
C29_MergeBackgrounds ==
    Merged =>
        LET X == fin.rects
            out == fout.val
        IN /\ merge_backgrounds(out) = out
           /\ \A k \in 0..Len(X) :
                merge_backgrounds(merge_backgrounds(SubSeq(X, 1, k)) \o SubSeq(X, k + 1, Len(X)))
                  = out
           /\ StartsInOrder(out, X)
           /\ Covered(out) = Covered(X)
           /\ \A k \in 1..(Len(out) - 1) : ~ClaimedMergeable(out[k], out[k + 1])

\* Three contiguous rectangles of one colour and row were merged into one.
C29_Witness ==
    /\ Merged /\ Len(fin.rects) = 3 /\ Len(fout.val) = 1
    /\ fout.val[1].start_col = 0 /\ fout.val[1].end_col = 3

\* No holder has both mutexes, and a thread that is about to lock a mutex
\* (or is between two handlers) does not hold it already.
LockDiscipline ==
    /\ ~(term_lock = "ui" /\ writer_lock = "ui")
    /\ writer_lock \in {"free", "ui"}
    /\ upc \in {"idle", "paint", "key_lock"} => term_lock # "ui"
    /\ upc \in {"idle", "paint", "mode", "key_lock"} => writer_lock = "free"
    /\ tpc = "recv" => term_lock # "task"

\* The steps that go on inside a handler once it has started.
HandlerStep == TaskAdvance \/ KeyMode \/ KeyLockWriter \/ KeyWrite \/ PaintClosure

\* A thread inside a handler is never blocked for good: a step of some
\* handler under way can be taken.
NoLockWaitCycle ==
    (upc # "idle" \/ tpc = "advance") => ENABLED HandlerStep

\* Every lock is taken from the free state, the writer is taken only by a
\* holder without the engine mutex and the engine mutex only by a holder
\* without the writer; byte processing, paint and resize leave the writer
\* mutex alone.
LockSteps ==
    /\ (writer_lock # "ui" /\ writer_lock' = "ui") =>
            (writer_lock = "free" /\ term_lock # "ui" /\ term_lock' # "ui")
    /\ (term_lock # "ui" /\ term_lock' = "ui") =>
            (term_lock = "free" /\ writer_lock = "free" /\ writer_lock' = "free")
    /\ (term_lock # "task" /\ term_lock' = "task") => term_lock = "free"
    /\ (tpc' # tpc \/ idx' # idx) => writer_lock' = writer_lock
    /\ oplog' # oplog => (writer_lock = "free" /\ writer_lock' = "free")

\* C30: no holder has the engine mutex and the writer mutex at once and
\* neither is locked again by its holder: on_key_down drops the engine guard
\* of mode() before it locks the writer; process_bytes, resize and paint
\* never lock the writer; no interleaving of key handling, byte processing
\* and paint ends in a wait that no step can resolve.
C30_LockOrder == [](LockDiscipline /\ NoLockWaitCycle) /\ [][LockSteps]_vars

\* A key's bytes went through the writer lock after the task had switched
\* the mode under the engine lock, and a frame was painted.
C30_Witness ==
    /\ upc = "idle" /\ writer_lock = "free" /\ term_lock = "free"
    /\ pty_in # <<>>
    /\ "APP_CURSOR" \in term.mode
    /\ \E i \in 1..Len(oplog) : oplog[i].op = "paint"

====
